---------------------------- MODULE Spec2Model ----------------------------
(***************************************************************************)
(* A model of the BrickBreaker collision engine and of its frame loop.     *)
(*                                                                         *)
(* Numbers.  The program computes in floats.  The model computes in fixed  *)
(* point: one pixel is SCALE units, so that every literal of the source    *)
(* (1 pixel nudges, rand()%10 - 5 over 20, .75 of the maximum speed) is a  *)
(* whole number of units.  A product with a float factor (.99, .5, 1.1,    *)
(* 1/13, a sine) is the exact product rounded to a unit.  A comparison of  *)
(* a distance with a length is made on the squares, which is exact.        *)
(***************************************************************************)
EXTENDS Integers, Sequences, FiniteSets, TLC

(***************************************************************************)
(* Units and the constants of Constants.h (a file of the repository that   *)
(* is not among the sources: the values are small stand-ins).              *)
(***************************************************************************)
SCALE == 20

BALL_RADIUS == 2 * SCALE
BALL_OUTLINE == 1 * SCALE
BALL_MAX_SPEED == 4 * SCALE
PADDLE_WIDTH == 8 * SCALE
PADDLE_HEIGHT == 2 * SCALE
PADDLE_ACCELERATION == SCALE \div 2
PADDLE_MAX_ROTATION == 6
PADDLE_ELONGATION_TIME == 2
BARRIER_WIDTH == 1 * SCALE
BARRIER_BUFFER == 1 * SCALE
BANNER_HEIGHT == 2 * SCALE
BRICK_HEIGHT == 2 * SCALE
BRICK_SEPARATION == 2 * SCALE
NUM_BRICKS_PER_LINE == 2
NUM_BRICK_ROWS == 1
NUM_EMPTY_ROWS == 1
NUM_SAFETY_BRICKS == 2
LEVEL_BREAK_TIME == 2
SPECIALS == <<"b", "l">>

(* The window the game is constructed with (window.getSize()). *)
WindowWidth == 30 * SCALE
WindowHeight == 60 * SCALE

(***************************************************************************)
(* Arithmetic helpers.                                                     *)
(***************************************************************************)
Abs(n) == IF n < 0 THEN -n ELSE n

Min2(a, b) == IF a < b THEN a ELSE b
Max2(a, b) == IF a < b THEN b ELSE a

(* n / d for d > 0, rounded to the nearest integer (a float result put on  *)
(* the unit grid).                                                         *)
RoundDiv(n, d) ==
    IF n >= 0 THEN (2 * n + d) \div (2 * d) ELSE -((2 * (-n) + d) \div (2 * d))

(* n / d for d > 0, cut towards zero.                                      *)
TruncDiv(n, d) == IF n >= 0 THEN n \div d ELSE -((-n) \div d)

Sq(n) == n * n

(* Sines and cosines of the whole multiples of 3 degrees the paddle can    *)
(* be turned to, times TRIG.                                               *)
TRIG == 10000
SinTable == <<523, 1045, 1564, 2079, 2588, 3090, 3584, 4067, 4540, 5000>>
CosTable == <<9986, 9945, 9877, 9781, 9659, 9511, 9336, 9135, 8910, 8660>>

(* sf::Transformable::getRotation() is in [0, 360): the signed angle.      *)
SignedAngle(rot) == IF rot > 180 THEN rot - 360 ELSE rot

SinDeg(rot) ==
    LET a == SignedAngle(rot)
        k == Abs(a) \div 3
    IN  IF a = 0 THEN 0 ELSE IF a > 0 THEN SinTable[k] ELSE -SinTable[k]

CosDeg(rot) ==
    LET a == SignedAngle(rot)
        k == Abs(a) \div 3
    IN  IF a = 0 THEN TRIG ELSE CosTable[k]

(* length * (trig value), on the unit grid.                                *)
TMul(len, t) == RoundDiv(len * t, TRIG)

(***************************************************************************)
(* sf::FloatRect.                                                          *)
(***************************************************************************)
Rect(l, t, w, h) == [left |-> l, top |-> t, width |-> w, height |-> h]

(* sf::Rect::intersects: the intersection has a positive area.             *)
intersects(a, b) ==
    /\ Max2(a.left, b.left) < Min2(a.left + a.width, b.left + b.width)
    /\ Max2(a.top, b.top) < Min2(a.top + a.height, b.top + b.height)

(* sf::Rect::contains: closed on the left and top, open on the right and   *)
(* bottom.                                                                 *)
contains(r, x, y) ==
    /\ x >= r.left /\ x < r.left + r.width
    /\ y >= r.top /\ y < r.top + r.height

DistSq(x1, y1, x2, y2) == Sq(x1 - x2) + Sq(y1 - y2)

(* What a collision query gives back: the character and the bounding box   *)
(* as the query leaves it.                                                 *)
Answer(c, box) == [c |-> c, box |-> box]

(***************************************************************************)
(* Barrier.                                                                *)
(***************************************************************************)
NewBarrier(windowWidth, windowHeight, width, buffer) ==
    [kind |-> "barrier", delete_ |-> FALSE,
     left_ |-> Rect(buffer, buffer + BANNER_HEIGHT,
                    width, windowHeight - buffer - BANNER_HEIGHT),
     top_ |-> Rect(buffer, buffer + BANNER_HEIGHT,
                   windowWidth - 2 * buffer - width, width),
     right_ |-> Rect(windowWidth - buffer - width, buffer + BANNER_HEIGHT,
                     width, windowHeight - buffer - BANNER_HEIGHT)]

(* (Barrier_collision_topFirst: the top wall is tested before the sides.)  *)
Barrier_collision_topFirst(barrier, boundingBox) ==
    IF intersects(barrier.top_, boundingBox)
    THEN Answer("v", boundingBox)
    ELSE IF intersects(barrier.left_, boundingBox) \/ intersects(barrier.right_, boundingBox)
         THEN Answer("h", boundingBox)
         ELSE Answer("n", boundingBox)

Barrier_collision(barrier, boundingBox) ==
    IF intersects(barrier.left_, boundingBox) \/ intersects(barrier.right_, boundingBox)
    THEN Answer("h", boundingBox)
    ELSE IF intersects(barrier.top_, boundingBox)
         THEN Answer("v", boundingBox)
         ELSE Answer("n", boundingBox)

(***************************************************************************)
(* Brick.                                                                  *)
(***************************************************************************)
NewBrick(xPos, yPos, width, height, special) ==
    [kind |-> "brick", delete_ |-> FALSE,
     rectangle_ |-> Rect(xPos, yPos, width, height), special_ |-> special]

(* (Brick_collision_sidesFirst: the left and right points are tested       *)
(* before the top and bottom ones, and the corners are left out.)          *)
Brick_collision_sidesFirst(brick, boundingBox) ==
    IF ~intersects(brick.rectangle_, boundingBox) THEN Answer("n", boundingBox)
    ELSE IF \/ contains(brick.rectangle_, boundingBox.left,
                        boundingBox.top + boundingBox.height \div 2)
            \/ contains(brick.rectangle_, boundingBox.left + boundingBox.width,
                        boundingBox.top + boundingBox.height \div 2)
    THEN Answer("h", boundingBox)
    ELSE IF \/ contains(brick.rectangle_, boundingBox.left + boundingBox.width \div 2,
                        boundingBox.top)
            \/ contains(brick.rectangle_, boundingBox.left + boundingBox.width \div 2,
                        boundingBox.top + boundingBox.height)
    THEN Answer("v", boundingBox)
    ELSE Answer("n", boundingBox)

(* (Brick_collision_firstCorner: a corner contact always leaves the top    *)
(* left corner in the box.)                                                *)
Brick_collision_firstCorner(brick, boundingBox) ==
    LET bounds == brick.rectangle_
        cx == boundingBox.left + boundingBox.width \div 2
        cy == boundingBox.top + boundingBox.height \div 2
        near(px, py) == 4 * DistSq(cx, cy, px, py) < Sq(boundingBox.width)
        right == bounds.left + bounds.width
        bottom == bounds.top + bounds.height
        corner == Answer("c", [boundingBox EXCEPT !.left = bounds.left,
                                                  !.top = bounds.top])
    IN  IF ~intersects(bounds, boundingBox) THEN Answer("n", boundingBox)
        ELSE IF \/ contains(bounds, cx, boundingBox.top)
                \/ contains(bounds, cx, boundingBox.top + boundingBox.height)
        THEN Answer("v", boundingBox)
        ELSE IF \/ contains(bounds, boundingBox.left, cy)
                \/ contains(bounds, boundingBox.left + boundingBox.width, cy)
        THEN Answer("h", boundingBox)
        ELSE IF \/ near(bounds.left, bounds.top) \/ near(right, bounds.top)
                \/ near(right, bottom) \/ near(bounds.left, bottom)
        THEN corner
        ELSE Answer("n", boundingBox)

Brick_collision(brick, boundingBox) ==
    LET bounds == brick.rectangle_
        cx == boundingBox.left + boundingBox.width \div 2
        cy == boundingBox.top + boundingBox.height \div 2
        (* distance < radius, with radius = boundingBox.width / 2 *)
        near(px, py) == 4 * DistSq(cx, cy, px, py) < Sq(boundingBox.width)
        right == bounds.left + bounds.width
        bottom == bounds.top + bounds.height
        corner(px, py) == Answer("c", [boundingBox EXCEPT !.left = px, !.top = py])
    IN  IF ~intersects(bounds, boundingBox) THEN Answer("n", boundingBox)
        ELSE IF \/ contains(bounds, cx, boundingBox.top)
                \/ contains(bounds, cx, boundingBox.top + boundingBox.height)
        THEN Answer("v", boundingBox)
        ELSE IF \/ contains(bounds, boundingBox.left, cy)
                \/ contains(bounds, boundingBox.left + boundingBox.width, cy)
        THEN Answer("h", boundingBox)
        ELSE IF near(bounds.left, bounds.top) THEN corner(bounds.left, bounds.top)
        ELSE IF near(right, bounds.top) THEN corner(right, bounds.top)
        ELSE IF near(right, bottom) THEN corner(right, bottom)
        ELSE IF near(bounds.left, bottom) THEN corner(bounds.left, bottom)
        ELSE Answer("n", boundingBox)

(***************************************************************************)
(* Paddle.  rectangle_ has its origin at the middle of its top side and is *)
(* turned about it; the two circles keep the place Paddle::move() last     *)
(* gave them.                                                              *)
(***************************************************************************)
PADDLE_ELONGATION_NUM == 3
PADDLE_ELONGATION_DEN == 2

NewPaddle(xPos, yPos, width, height, now) ==
    [kind |-> "paddle", delete_ |-> FALSE,
     x |-> xPos, y |-> yPos, size_x |-> width, size_y |-> height, rot |-> 0,
     vel_ |-> 0, accel_ |-> 0, timer_ |-> now - 30,
     lcx |-> xPos - width \div 2, lcy |-> yPos + height \div 2,
     rcx |-> xPos + width \div 2, rcy |-> yPos + height \div 2]

(* A point turned by the angle of cosine c and sine s (times TRIG).         *)
TurnedX(x, y, c, s) == TMul(x, c) - TMul(y, s)
TurnedY(x, y, c, s) == TMul(x, s) + TMul(y, c)

SetMin(S) == CHOOSE v \in S : \A w \in S : v <= w
SetMax(S) == CHOOSE v \in S : \A w \in S : v >= w

(* The box around points given by their x and their y, relative to (x, y). *)
BoxAround(x, y, xs, ys) ==
    Rect(x + SetMin(xs), y + SetMin(ys), SetMax(xs) - SetMin(xs), SetMax(ys) - SetMin(ys))

(* The corners of rectangle_ relative to its origin, before it is turned.  *)
Paddle_corners(hw, h) == { <<-hw, 0>>, <<hw, 0>>, <<-hw, h>>, <<hw, h>> }

TurnedBox(x, y, pts, c, s) ==
    BoxAround(x, y, {TurnedX(q[1], q[2], c, s) : q \in pts},
                    {TurnedY(q[1], q[2], c, s) : q \in pts})

(* rectangle_.getGlobalBounds(): the box around the four turned corners.   *)
Paddle_rectBounds(p) ==
    TurnedBox(p.x, p.y, Paddle_corners(p.size_x \div 2, p.size_y),
              CosDeg(p.rot), SinDeg(p.rot))

(* A circle's getGlobalBounds(): radius size_y / 2, no outline.            *)
Paddle_circleBounds(p, cx, cy) ==
    Rect(cx - p.size_y \div 2, cy - p.size_y \div 2, p.size_y, p.size_y)

(* (Paddle_reach_thin: half the paddle's thickness alone.)                  *)
Paddle_reach_thin(p, boundingBox) == p.size_y \div 2

(* The distance below which the rectangle is hit.                          *)
Paddle_reach(p, boundingBox) == boundingBox.width \div 2 + p.size_y \div 2

Paddle_collision(p, boundingBox) ==
    LET rectBounds == Paddle_rectBounds(p)
        cx == boundingBox.left + boundingBox.width \div 2
        ax == cx - p.lcx
        ay == p.lcy - (boundingBox.top + boundingBox.width \div 2)
        bx == p.rcx - p.lcx
        by == p.lcy - p.rcy
        (* dist is |a x b| / |b|: dist < reach on the squares *)
        reach == Paddle_reach(p, boundingBox)
        onRect == /\ intersects(rectBounds, boundingBox)
                  /\ cx > p.lcx
                  /\ cx < p.rcx
                  /\ Sq(ax * by - ay * bx) < Sq(reach) * (Sq(bx) + Sq(by))
        temp == intersects(Paddle_circleBounds(p, p.lcx, p.lcy), boundingBox)
        other == intersects(Paddle_circleBounds(p, p.rcx, p.rcy), boundingBox)
        tx == IF temp THEN p.lcx ELSE p.rcx
        ty == IF temp THEN p.lcy ELSE p.rcy
        ox == boundingBox.left + boundingBox.width \div 2
        oy == boundingBox.top + boundingBox.height \div 2
    IN  IF onRect
        THEN Answer("v", Rect(p.rot, boundingBox.top, p.vel_, 0))
        ELSE IF /\ (temp \/ other)
                /\ DistSq(tx, ty, ox, oy) < Sq(boundingBox.width \div 2 + p.size_y \div 2)
        THEN Answer("s", Rect(tx, ty, p.vel_, 0))
        ELSE Answer("n", boundingBox)

Paddle_changeLength(p, type, now) ==
    IF type /\ now - p.timer_ > 0
    THEN [p EXCEPT !.timer_ = now + PADDLE_ELONGATION_TIME,
                   !.size_x = (PADDLE_WIDTH * PADDLE_ELONGATION_NUM) \div PADDLE_ELONGATION_DEN]
    ELSE IF ~type /\ p.size_x # PADDLE_WIDTH
    THEN [p EXCEPT !.size_x = PADDLE_WIDTH]
    ELSE p

(* (Paddle_handleCollision_keepAccel: the key held goes on pushing.)        *)
Paddle_handleCollision_keepAccel(p) ==
    [p EXCEPT !.x = IF p.x < WindowWidth \div 2 THEN p.x + SCALE ELSE p.x - SCALE,
              !.vel_ = 0]

Paddle_handleCollision(p) ==
    [p EXCEPT !.x = IF p.x < WindowWidth \div 2 THEN p.x + SCALE ELSE p.x - SCALE,
              !.accel_ = 0,
              !.vel_ = 0]

(* (Paddle_rotate_free: no limit.)                                          *)
Paddle_rotate_free(p, direction) ==
    [p EXCEPT !.rot = (p.rot + (IF direction THEN 3 ELSE -3) + 360) % 360]

Paddle_rotate(p, direction) ==
    LET rotation == IF p.rot > PADDLE_MAX_ROTATION THEN p.rot - 360 ELSE p.rot
    IN  IF \/ (direction /\ rotation < PADDLE_MAX_ROTATION)
           \/ (~direction /\ rotation > -PADDLE_MAX_ROTATION)
        THEN [p EXCEPT !.rot = (p.rot + (IF direction THEN 3 ELSE -3) + 360) % 360]
        ELSE p

(* type is "pressed" or "released", key one of J, L, A, D.                 *)
Paddle_processKey(p, type, key) ==
    IF key \in {"J", "L"}
    THEN IF type = "released"
         THEN IF (key = "L" /\ p.accel_ > 0) \/ (key = "J" /\ p.accel_ < 0)
              THEN [p EXCEPT !.accel_ = 0]
              ELSE p
         ELSE [p EXCEPT !.accel_ = IF key = "L" THEN PADDLE_ACCELERATION
                                    ELSE -PADDLE_ACCELERATION]
    ELSE IF type = "pressed" THEN Paddle_rotate(p, key = "D") ELSE p

(* The three steps of Paddle::move(): the elongation timer, the barrier,   *)
(* the motion.                                                             *)
Paddle_checkTimer(p, now) ==
    IF now - p.timer_ = 0 THEN Paddle_changeLength(p, FALSE, now) ELSE p

Paddle_hitsBarrier(barrier, box) == Barrier_collision(barrier, box).c # "n"

Paddle_checkBarrier(p, barrier) ==
    IF \/ Paddle_hitsBarrier(barrier, Paddle_circleBounds(p, p.lcx, p.lcy))
       \/ Paddle_hitsBarrier(barrier, Paddle_circleBounds(p, p.rcx, p.rcy))
       \/ Paddle_hitsBarrier(barrier, Paddle_rectBounds(p))
    THEN Paddle_handleCollision(p)
    ELSE p

(* vel_ -= vel_ / 13 *)
Paddle_friction(v) == v - RoundDiv(v, 13)

(* The rectangle moves by v; each circle is set at the middle of a side.   *)
Paddle_place(p, v, hw, c, s) ==
    [p EXCEPT !.vel_ = v, !.x = p.x + v,
              !.lcx = p.x + v - TMul(hw, c),
              !.lcy = p.y + p.size_y \div 2 - TMul(hw, s),
              !.rcx = p.x + v + TMul(hw, c),
              !.rcy = p.y + p.size_y \div 2 + TMul(hw, s)]

Paddle_advance(p) ==
    Paddle_place(p, Paddle_friction(p.vel_ + p.accel_), p.size_x \div 2,
                 CosDeg(p.rot), SinDeg(p.rot))

Paddle_move(p0, barrier, now) ==
    Paddle_advance(Paddle_checkBarrier(Paddle_checkTimer(p0, now), barrier))

(***************************************************************************)
(* Ball.  circle_ has its origin at its centre; its bounds include the     *)
(* outline.  attached stands for attachedPos_ # nullptr: the pointer is    *)
(* always the paddle's position.                                           *)
(***************************************************************************)
NewBall(xPos, yPos, xVel, yVel) ==
    [kind |-> "ball", delete_ |-> FALSE, x |-> xPos, y |-> yPos,
     vx |-> xVel, vy |-> yVel, attached |-> FALSE, collisionState_ |-> FALSE]

(* The constructor of a ball attached to the paddle: circle_ is left at    *)
(* the origin until the first move().                                      *)
NewAttachedBall ==
    [kind |-> "ball", delete_ |-> FALSE, x |-> 0, y |-> 0,
     vx |-> 0, vy |-> 0, attached |-> TRUE, collisionState_ |-> FALSE]

Ball_isAttached(b) == b.attached

Ball_bounds(b) ==
    Rect(b.x - BALL_RADIUS - BALL_OUTLINE, b.y - BALL_RADIUS - BALL_OUTLINE,
         2 * (BALL_RADIUS + BALL_OUTLINE), 2 * (BALL_RADIUS + BALL_OUTLINE))

(* (Ball_collision_attached: an attached ball collides like any other.     *)
(* Ball_collision_fullWidth: the reach is taken with the width of the box  *)
(* instead of half of it.)                                                 *)
Ball_collision_attached(b, boundingBox) ==
    IF /\ DistSq(b.x, b.y, boundingBox.left + boundingBox.width \div 2,
                 boundingBox.top + boundingBox.height \div 2)
            < Sq(boundingBox.width \div 2 + BALL_RADIUS)
       /\ 16 * DistSq(b.x, b.y, boundingBox.left + boundingBox.width \div 2,
                      boundingBox.top + boundingBox.height \div 2) > Sq(BALL_RADIUS)
    THEN Answer("y", Rect(b.x, b.y, b.vx, b.vy))
    ELSE Answer("n", boundingBox)

Ball_collision_fullWidth(b, boundingBox) ==
    IF Ball_isAttached(b) THEN Answer("n", boundingBox)
    ELSE IF /\ DistSq(b.x, b.y, boundingBox.left + boundingBox.width \div 2,
                      boundingBox.top + boundingBox.height \div 2)
                 < Sq(boundingBox.width + BALL_RADIUS)
            /\ 16 * DistSq(b.x, b.y, boundingBox.left + boundingBox.width \div 2,
                           boundingBox.top + boundingBox.height \div 2) > Sq(BALL_RADIUS)
    THEN Answer("y", Rect(b.x, b.y, b.vx, b.vy))
    ELSE Answer("n", boundingBox)

(* (Ball_collision_noDeadZone: without the radius / 4 lower limit.)         *)
Ball_collision_noDeadZone(b, boundingBox) ==
    LET ox == boundingBox.left + boundingBox.width \div 2
        oy == boundingBox.top + boundingBox.height \div 2
    IN  IF ~Ball_isAttached(b)
           /\ DistSq(b.x, b.y, ox, oy) < Sq(boundingBox.width \div 2 + BALL_RADIUS)
        THEN Answer("y", Rect(b.x, b.y, b.vx, b.vy))
        ELSE Answer("n", boundingBox)

Ball_collision(b, boundingBox) ==
    LET ox == boundingBox.left + boundingBox.width \div 2
        oy == boundingBox.top + boundingBox.height \div 2
        dd == DistSq(b.x, b.y, ox, oy)
    IN  IF Ball_isAttached(b) THEN Answer("n", boundingBox)
        ELSE IF /\ dd < Sq(boundingBox.width \div 2 + BALL_RADIUS)
                /\ 16 * dd > Sq(BALL_RADIUS)
        THEN Answer("y", Rect(b.x, b.y, b.vx, b.vy))
        ELSE Answer("n", boundingBox)

Ball_setVelocity(b, vx, vy) == [b EXCEPT !.vx = vx, !.vy = vy]

(* r is rand() % 10.                                                       *)
Ball_detach(b, r) ==
    LET vy == (BALL_MAX_SPEED * 3) \div 4
    IN  [b EXCEPT !.vy = vy,
                  !.x = b.x - b.vx,
                  !.y = b.y - vy,
                  !.vx = ((r - 5) * SCALE) \div 20,
                  !.attached = FALSE]

(***************************************************************************)
(* The contact frame.  getContactAngle gives a = atan(dx / dy), and 90     *)
(* degrees when dy = 0; the responses turn a velocity by a, change its y   *)
(* component, and turn it back by -a (rotate(a) followed by rotate(-2a)).  *)
(* Written out, only sin(a)^2, sin(a)cos(a) and cos(a)^2 occur, which are  *)
(* dx^2, dx dy and dy^2 over dx^2 + dy^2: the model computes with these.   *)
(***************************************************************************)
Ball_getContactAngle(x1, y1, left, top) ==
    LET dx == x1 - left
        dy == y1 - top
    IN  IF dy = 0
        THEN [ss |-> 1, sc |-> 0, cc |-> 0, den |-> 1]
        ELSE [ss |-> dx * dx, sc |-> dx * dy, cc |-> dy * dy, den |-> dx * dx + dy * dy]

(* Turn by a, negate y, add 1.1 times the turned y of (kickx, 0), turn     *)
(* back by -a.                                                             *)
(* (FrameInvert_turnOnly: the velocity is turned back by -2a instead of    *)
(* -a, so that it does not come back to the coordinates it left.)          *)
FrameInvert_turnOnly(vx, vy, a, kickx) ==
    [vx |-> RoundDiv((a.cc - a.ss) * vx + 2 * a.sc * vy, a.den),
     vy |-> RoundDiv(2 * a.sc * vx - (a.cc - a.ss) * vy, a.den)]

FrameInvert(vx, vy, a, kickx) ==
    [vx |-> RoundDiv((a.cc - a.ss) * vx - 2 * a.sc * vy, a.den)
              + RoundDiv(11 * kickx * a.ss, 10 * a.den),
     vy |-> RoundDiv(-2 * a.sc * vx - (a.cc - a.ss) * vy, a.den)
              + RoundDiv(11 * kickx * a.sc, 10 * a.den)]

(* Turn both by a, swap the y components, turn both back by -a: what is    *)
(* added to the first velocity and taken from the second.                  *)
FrameSwap(vx, vy, ox, oy, a) ==
    [dx |-> RoundDiv((ox - vx) * a.ss + (oy - vy) * a.sc, a.den),
     dy |-> RoundDiv((ox - vx) * a.sc + (oy - vy) * a.cc, a.den)]

(* The same for the angle of cosine c and sine s that the flat of the      *)
(* paddle gives: into the frame, the bounce, and back.                     *)
InFrame(vx, vy, c, s) == [vx |-> TurnedX(vx, vy, c, s), vy |-> TurnedY(vx, vy, c, s)]

FlatBounce(u, kickx, c, s) ==
    InFrame(u.vx, -u.vy + RoundDiv(11 * TurnedY(kickx, 0, c, s), 10), c, -s)

FlatInvert(vx, vy, kickx, c, s) == FlatBounce(InFrame(vx, vy, c, s), kickx, c, s)

WithVelocity(b, v) == [b EXCEPT !.vx = v.vx, !.vy = v.vy]

(* The polymorphic Object::collision.                                      *)
Object_collision(o, boundingBox) ==
    CASE o.kind = "barrier" -> Barrier_collision(o, boundingBox)
      [] o.kind = "paddle" -> Paddle_collision(o, boundingBox)
      [] o.kind = "brick" -> Brick_collision(o, boundingBox)
      [] o.kind = "ball" -> Ball_collision(o, boundingBox)

(***************************************************************************)
(* Ball::move() and its handlers.  The collection is a sequence: the       *)
(* object of C++ index i is objs[i + 1].  A handler works on               *)
(*   [objs, hit, q]                                                        *)
(* the collection (with the moving ball in it), whether it handled a       *)
(* collision, and the queries made so far, each [target, c].               *)
(***************************************************************************)
indexOfFirstSafetyBrick_ == 2

Query(target, c) == [target |-> target, c |-> c]

(* The handler's state once the ball of index i has become b.              *)
Handled(st, i, b, hit, target, c) ==
    [objs |-> [st.objs EXCEPT ![i + 1] = b],
     hit |-> hit,
     q |-> Append(st.q, Query(target, c))]

(* (Ball_handleSimpleCollision_bothAxes: 'h' turns the ball right round.)  *)
Ball_handleSimpleCollision_bothAxes(b, c) ==
    IF c = "v" THEN [b |-> [b EXCEPT !.vy = -b.vy], handled |-> TRUE]
    ELSE IF c = "h" THEN [b |-> [b EXCEPT !.vx = -b.vx, !.vy = -b.vy], handled |-> TRUE]
    ELSE [b |-> b, handled |-> FALSE]

Ball_handleSimpleCollision(b, c) ==
    IF c = "v" THEN [b |-> [b EXCEPT !.vy = -b.vy], handled |-> TRUE]
    ELSE IF c = "h" THEN [b |-> [b EXCEPT !.vx = -b.vx], handled |-> TRUE]
    ELSE [b |-> b, handled |-> FALSE]

Ball_onBarrier(st, i, c) ==
    Handled(st, i, Ball_handleSimpleCollision(st.objs[i + 1], c).b,
            Ball_handleSimpleCollision(st.objs[i + 1], c).handled, 1, c)

Ball_handleBarrierCollisions(st, i, bounds) ==
    Ball_onBarrier(st, i, Object_collision(st.objs[2], bounds).c)

(* 'v': the contact angle is minus the paddle's rotation, which the query  *)
(* left in box.left; 's': it is that of the centres.  box.width is the     *)
(* paddle's velocity.                                                      *)
Ball_onPaddle(st, i, b, ans) ==
    Handled(st, i,
            IF ans.c = "v"
            THEN WithVelocity(b, FlatInvert(b.vx, b.vy, ans.box.width,
                                            CosDeg(ans.box.left), -SinDeg(ans.box.left)))
            ELSE IF ans.c = "s"
            THEN WithVelocity(b, FrameInvert(b.vx, b.vy,
                        Ball_getContactAngle(b.x, b.y, ans.box.left, ans.box.top),
                        ans.box.width))
            ELSE b,
            ans.c \in {"v", "s"}, 0, ans.c)

Ball_handlePaddleCollisions(st, i, bounds) ==
    Ball_onPaddle(st, i, st.objs[i + 1], Object_collision(st.objs[1], bounds))

(* objects[j]->delete_ = true, when the brick's answer is not 'n'.         *)
(* (Ball_markBrick_always: whatever the answer.)                           *)
Ball_markBrick_always(st, j, c) == [st EXCEPT !.objs[j + 1].delete_ = TRUE]

Ball_markBrick(st, j, c) ==
    IF c # "n" THEN [st EXCEPT !.objs[j + 1].delete_ = TRUE] ELSE st

(* One turn of the loop over the bricks, for the brick of index j.         *)
Ball_onBrick(st, i, j, b, ans) ==
    Handled(Ball_markBrick(st, j, ans.c), i,
            IF Ball_handleSimpleCollision(b, ans.c).handled
            THEN Ball_handleSimpleCollision(b, ans.c).b
            ELSE IF ans.c = "c"
            THEN WithVelocity(b, FrameInvert(b.vx, b.vy,
                        Ball_getContactAngle(b.x, b.y, ans.box.left, ans.box.top), 0))
            ELSE b,
            Ball_handleSimpleCollision(b, ans.c).handled \/ ans.c = "c", j, ans.c)

Ball_brickStep(st, i, bounds, j) ==
    Ball_onBrick(st, i, j, st.objs[i + 1], Object_collision(st.objs[j + 1], bounds))

(* The loop over the bricks from index j on, left at the first hit.        *)
RECURSIVE BrickLoop(_, _, _, _, _)
BrickLoop(st, i, bounds, j, end) ==
    IF st.hit \/ j >= end THEN st
    ELSE BrickLoop(Ball_brickStep(st, i, bounds, j), i, bounds, j + 1, end)

Ball_handleBrickCollisions(st, i, bounds, numSafety, numBricks) ==
    BrickLoop(st, i, bounds, indexOfFirstSafetyBrick_,
              indexOfFirstSafetyBrick_ + numSafety + numBricks)

(* The two balls after the swap: d is what this ball gains and the other   *)
(* loses; box holds the other's velocity.                                  *)
(* (Ball_swap_selfOnly: the peer's velocity is not written.)                *)
Ball_swap_selfOnly(st, i, j, b, o, box, d) ==
    [objs |-> [st.objs EXCEPT ![i + 1] = [b EXCEPT !.vx = b.vx + d.dx, !.vy = b.vy + d.dy]],
     hit |-> TRUE,
     q |-> Append(st.q, Query(j, "y"))]

Ball_swap(st, i, j, b, o, box, d) ==
    [objs |-> [st.objs EXCEPT ![i + 1] = [b EXCEPT !.vx = b.vx + d.dx, !.vy = b.vy + d.dy],
                              ![j + 1] = Ball_setVelocity(o, box.width - d.dx,
                                                          box.height - d.dy)],
     hit |-> TRUE,
     q |-> Append(st.q, Query(j, "y"))]

(* One turn of the loop over the balls, for the object of index j.         *)
(* (Ball_onBall_noParity: without the test of collisionState_.)            *)
Ball_onBall_noParity(st, i, j, b, o, ans) ==
    IF ans.c = "y"
    THEN Ball_swap(st, i, j, b, o, ans.box,
                   FrameSwap(b.vx, b.vy, ans.box.width, ans.box.height,
                             Ball_getContactAngle(b.x, b.y, ans.box.left, ans.box.top)))
    ELSE [st EXCEPT !.q = Append(st.q, Query(j, ans.c))]

Ball_onBall(st, i, j, b, o, ans) ==
    IF o.kind = "ball" /\ o.collisionState_ # b.collisionState_
    THEN st
    ELSE IF ans.c = "y"
    THEN Ball_swap(st, i, j, b, o, ans.box,
                   FrameSwap(b.vx, b.vy, ans.box.width, ans.box.height,
                             Ball_getContactAngle(b.x, b.y, ans.box.left, ans.box.top)))
    ELSE [st EXCEPT !.q = Append(st.q, Query(j, ans.c))]

Ball_ballStep(st, i, bounds, j) ==
    Ball_onBall(st, i, j, st.objs[i + 1], st.objs[j + 1],
                Object_collision(st.objs[j + 1], bounds))

(* The loop over the balls from index j on, left at the first hit.         *)
RECURSIVE BallLoop(_, _, _, _)
BallLoop(st, i, bounds, j) ==
    IF st.hit \/ j >= Len(st.objs) THEN st
    ELSE BallLoop(Ball_ballStep(st, i, bounds, j), i, bounds, j + 1)

Ball_handleBallCollisions(st, i, bounds, numSafety, numBricks) ==
    BallLoop(st, i, bounds, indexOfFirstSafetyBrick_ + numSafety + numBricks)

(* The || of Ball::move(): a handler is called if none before it hit.      *)
(* (Ball_orPaddle_unconditional: the paddle is asked whatever the barrier  *)
(* answered.)                                                              *)
Ball_orPaddle_unconditional(st, i, bounds) == Ball_handlePaddleCollisions(st, i, bounds)

Ball_orPaddle(st, i, bounds) ==
    IF st.hit THEN st ELSE Ball_handlePaddleCollisions(st, i, bounds)

Ball_orBricks(st, i, bounds, numSafety, numBricks) ==
    IF st.hit THEN st ELSE Ball_handleBrickCollisions(st, i, bounds, numSafety, numBricks)

Ball_orBalls(st, i, bounds, numSafety, numBricks) ==
    IF st.hit THEN st ELSE Ball_handleBallCollisions(st, i, bounds, numSafety, numBricks)

(* The chain of Ball::move(): attached, or the first handler that hits.    *)
Ball_collisionChain(objs, i, bounds, numSafety, numBricks) ==
    IF Ball_isAttached(objs[i + 1])
    THEN [objs |-> objs, hit |-> TRUE, q |-> <<>>]
    ELSE Ball_orBalls(
             Ball_orBricks(
                 Ball_orPaddle(
                     Ball_handleBarrierCollisions(
                         [objs |-> objs, hit |-> FALSE, q |-> <<>>], i, bounds),
                     i, bounds),
                 i, bounds, numSafety, numBricks),
             i, bounds, numSafety, numBricks)

(* The steps of Ball::move() after the chain.  The extra half step of a    *)
(* ball that collided:                                                     *)
Ball_extraMove(b, hit) ==
    IF hit /\ ~Ball_isAttached(b)
    THEN [b EXCEPT !.x = b.x + RoundDiv(b.vx, 2), !.y = b.y + RoundDiv(b.vy, 2)]
    ELSE b

(* (Ball_flipState_freeOnly: an attached ball keeps its flag.)             *)
Ball_flipState_freeOnly(b) ==
    IF Ball_isAttached(b) THEN b ELSE [b EXCEPT !.collisionState_ = ~b.collisionState_]

Ball_flipState(b) == [b EXCEPT !.collisionState_ = ~b.collisionState_]

(* An attached ball is set on the paddle's position.                       *)
(* (Ball_followPaddle_never: it is left where it was.)                     *)
Ball_followPaddle_never(b, paddle) == b

Ball_followPaddle(b, paddle) ==
    IF Ball_isAttached(b)
    THEN [b EXCEPT !.x = paddle.x, !.y = paddle.y - BALL_RADIUS]
    ELSE b

(* The speed limit.                                                        *)
Ball_slowDown(b) ==
    IF b.vx > BALL_MAX_SPEED \/ b.vy > BALL_MAX_SPEED
    THEN [b EXCEPT !.vx = TruncDiv(99 * b.vx, 100), !.vy = TruncDiv(99 * b.vy, 100)]
    ELSE b

(* circle_.move(vel_) *)
Ball_step(b) == [b EXCEPT !.x = b.x + b.vx, !.y = b.y + b.vy]

Ball_afterChain(b, hit, paddle) ==
    Ball_step(Ball_slowDown(Ball_followPaddle(Ball_flipState(Ball_extraMove(b, hit)), paddle)))

(* What Ball::move() of the ball of index i gives: the collection after    *)
(* it, the queries it made, whether the chain ended in a hit, whether the  *)
(* ball had left the field, and the ball's velocity when the chain ended.  *)
Ball_moved(st, i) ==
    [objs |-> [st.objs EXCEPT ![i + 1] =
                  Ball_afterChain(st.objs[i + 1], st.hit, st.objs[1])],
     q |-> st.q, hit |-> st.hit, left |-> FALSE,
     chainv |-> <<st.objs[i + 1].vx, st.objs[i + 1].vy>>]

(* The ball has left the stage: it is marked for deletion, and that is     *)
(* all.  (Ball_leave_erasing: it takes itself out of the collection.)      *)
Ball_leave_erasing(objs, i) ==
    [objs |-> SubSeq(objs, 1, i) \o SubSeq(objs, i + 2, Len(objs)),
     q |-> <<>>, hit |-> FALSE, left |-> TRUE,
     chainv |-> <<objs[i + 1].vx, objs[i + 1].vy>>]

(* (Ball_leave_flipping: the parity flag is toggled all the same.)         *)
Ball_leave_flipping(objs, i) ==
    [objs |-> [objs EXCEPT ![i + 1].delete_ = TRUE,
                           ![i + 1].collisionState_ = ~objs[i + 1].collisionState_],
     q |-> <<>>, hit |-> FALSE, left |-> TRUE,
     chainv |-> <<objs[i + 1].vx, objs[i + 1].vy>>]

Ball_leave(objs, i) ==
    [objs |-> [objs EXCEPT ![i + 1].delete_ = TRUE],
     q |-> <<>>, hit |-> FALSE, left |-> TRUE,
     chainv |-> <<objs[i + 1].vx, objs[i + 1].vy>>]

Ball_move(objs, i, numSafety, numBricks) ==
    IF Ball_bounds(objs[i + 1]).top > WindowHeight
    THEN Ball_leave(objs, i)
    ELSE Ball_moved(Ball_collisionChain(objs, i, Ball_bounds(objs[i + 1]),
                                        numSafety, numBricks), i)

(***************************************************************************)
(* StageBuilder: the bricks of a level, in the order they are pushed.      *)
(***************************************************************************)
StageSizeX == WindowWidth - 2 * BARRIER_BUFFER - 2 * BARRIER_WIDTH
StageSizeY == WindowHeight - BANNER_HEIGHT - BARRIER_BUFFER - BARRIER_WIDTH
OriginX == BARRIER_BUFFER + BARRIER_WIDTH
OriginY == BANNER_HEIGHT + BARRIER_BUFFER + BARRIER_WIDTH

StageBuilder_addSafetyBricks(numBricks) ==
    [col \in 1..Max2(numBricks, 0) |->
        LET brickWidth == RoundDiv(StageSizeX - 2 * BRICK_SEPARATION, numBricks)
        IN  NewBrick(2 * BRICK_SEPARATION + OriginX + brickWidth * (col - 1),
                     OriginY + StageSizeY - BRICK_HEIGHT \div 2 - BRICK_SEPARATION,
                     brickWidth - 2 * BRICK_SEPARATION, BRICK_HEIGHT \div 2, "s")]

(* Level 1 is generated: sp[k] is the special character the random draws   *)
(* give the k-th brick ("" for a regular brick).                           *)
NUM_SPECIAL_BRICKS == 1

LevelOneSpecials ==
    {sp \in [1..(NUM_BRICKS_PER_LINE * NUM_BRICK_ROWS) -> {""} \cup {SPECIALS[k] : k \in 1..Len(SPECIALS)}] :
        LET n == Cardinality({k \in DOMAIN sp : sp[k] # ""})
        IN  n >= 1 /\ n <= NUM_SPECIAL_BRICKS}

StageBuilder_levelOne(sp) ==
    LET brickWidth == RoundDiv(StageSizeX - BRICK_SEPARATION, NUM_BRICKS_PER_LINE)
    IN  [k \in 1..(NUM_BRICKS_PER_LINE * NUM_BRICK_ROWS) |->
            LET row == (k - 1) \div NUM_BRICKS_PER_LINE
                col == (k - 1) % NUM_BRICKS_PER_LINE
            IN  NewBrick(OriginX + BRICK_SEPARATION + brickWidth * col,
                         OriginY + BRICK_SEPARATION
                            + (NUM_EMPTY_ROWS + row) * (BRICK_HEIGHT + BRICK_SEPARATION),
                         brickWidth - BRICK_SEPARATION, BRICK_HEIGHT, sp[k])]

(* The level files that exist, from level 2 on: each a list of lines, a   *)
(* line a list of characters: '-' a regular brick, '~' a special one,      *)
(* anything else no brick.                                                 *)
LevelFiles == << << <<"~", "-">> >>, << <<"-">> >> >>

(* The cells of a file that hold a special brick: each draws its special.  *)
TildeCells(lines) ==
    {rc \in (1..Len(lines)) \X (1..Len(lines[1])) :
        rc[2] <= Len(lines[rc[1]]) /\ lines[rc[1]][rc[2]] = "~"}

RECURSIVE FileBricks(_, _, _, _)
FileBricks(lines, row, col, sp) ==
    LET perLine == Len(lines[1])
    IN  IF row > Len(lines) THEN <<>>
        ELSE IF col > Min2(Len(lines[row]), perLine)
        THEN FileBricks(lines, row + 1, 1, sp)
        ELSE LET c == lines[row][col]
                 brickWidth == RoundDiv(StageSizeX - BRICK_SEPARATION, perLine)
                 rest == FileBricks(lines, row, col + 1, sp)
             IN  IF c \in {"-", "~"}
                 THEN << NewBrick(OriginX + BRICK_SEPARATION + brickWidth * (col - 1),
                                  OriginY + BRICK_SEPARATION
                                     + (row - 1) * (BRICK_HEIGHT + BRICK_SEPARATION),
                                  brickWidth - BRICK_SEPARATION, BRICK_HEIGHT,
                                  IF c = "~" THEN sp[<<row, col>>] ELSE "") >> \o rest
                 ELSE rest

StageBuilder_loadLevelFromFile(level, sp) == FileBricks(LevelFiles[level - 1], 1, 1, sp)

(***************************************************************************)
(* GraphicsRunner.  The operators below work on the record Game of the     *)
(* runner's data members.  objects_ is a std::vector: capacity is its      *)
(* allocated size, which push_back doubles when it is full (moving the     *)
(* elements, so that an iterator held across the call no longer points     *)
(* into the vector).  Each object carries a ghost id, its identity.        *)
(* The text objects, the score list and the pause bookkeeping are left     *)
(* out: nothing modelled reads them.                                       *)
(***************************************************************************)
VARIABLES
    objects,            \* objects_
    capacity,           \* objects_.capacity()
    numSafetyBricks_,
    numBricks_,
    status_,            \* "" for '\0', "p", "c", "o"
    level_,
    timerLength_,
    timerStart_,
    lastEvent_,         \* [type, key]
    now,                \* time(0), in seconds
    pc,                 \* "idle" between frames, "loop" inside update()
    it,                 \* the index the iterator of update() points at
    nextId,             \* ghost: the next identity to give
    responses,          \* ghost: the velocity responses of this frame, [ball, by]:
                        \*   ball's velocity was written by the move() of by
    last,               \* ghost: what the last step did
    frames,             \* frames still to run
    events              \* events still to deliver

vars == <<objects, capacity, numSafetyBricks_, numBricks_, status_, level_,
          timerLength_, timerStart_, lastEvent_, now, pc, it, nextId, responses,
          last, frames, events>>

Game ==
    [objects |-> objects, capacity |-> capacity,
     numSafetyBricks_ |-> numSafetyBricks_, numBricks_ |-> numBricks_,
     status_ |-> status_, level_ |-> level_,
     timerLength_ |-> timerLength_, timerStart_ |-> timerStart_,
     nextId |-> nextId]

SetGame(g) ==
    /\ objects' = g.objects
    /\ capacity' = g.capacity
    /\ numSafetyBricks_' = g.numSafetyBricks_
    /\ numBricks_' = g.numBricks_
    /\ status_' = g.status_
    /\ level_' = g.level_
    /\ timerLength_' = g.timerLength_
    /\ timerStart_' = g.timerStart_
    /\ nextId' = g.nextId

(* objects_.push_back(o) *)
Push(g, o) ==
    [g EXCEPT !.objects = Append(g.objects, [id |-> g.nextId] @@ o),
              !.nextId = g.nextId + 1,
              !.capacity = IF Len(g.objects) < g.capacity THEN g.capacity
                           ELSE IF g.capacity = 0 THEN 1 ELSE 2 * g.capacity]

RECURSIVE PushAll(_, _)
PushAll(g, os) == IF os = <<>> THEN g ELSE PushAll(Push(g, Head(os)), Tail(os))

GraphicsRunner_getPaddle(g) == g.objects[1]
GraphicsRunner_getBarrier(g) == g.objects[2]

(* (GraphicsRunner_clear_all: nothing is kept.)                             *)
GraphicsRunner_clear_all(g) == [g EXCEPT !.objects = <<>>]

GraphicsRunner_clear(g) ==
    [g EXCEPT !.objects = SubSeq(g.objects, 1, Min2(Len(g.objects), indexOfFirstSafetyBrick_))]

GraphicsRunner_gameOver(g, won) ==
    IF won THEN [g EXCEPT !.timerLength_ = 0, !.status_ = "o"]
    ELSE [g EXCEPT !.status_ = "o"]

(* What StageBuilder::getLevel can give for a level: whether the level     *)
(* exists, and its bricks under each outcome of the random draws.          *)
StageBuilder_getLevel(level) ==
    IF level = 1
    THEN {[ok |-> TRUE, bricks |-> StageBuilder_levelOne(sp)] : sp \in LevelOneSpecials}
    ELSE IF level - 1 <= Len(LevelFiles)
    THEN {[ok |-> TRUE, bricks |-> StageBuilder_loadLevelFromFile(level, sp)] :
            sp \in [TildeCells(LevelFiles[level - 1]) -> {SPECIALS[k] : k \in 1..Len(SPECIALS)}]}
    ELSE {[ok |-> FALSE, bricks |-> <<>>]}

(* lvl is what getLevel gives for the level being loaded.                  *)
GraphicsRunner_nextLevel(g, needClear, t, lvl) ==
    LET level == g.level_ + 1
        g1 == [g EXCEPT !.level_ = level, !.status_ = ""]
        g2 == IF needClear THEN GraphicsRunner_clear(g1) ELSE g1
        g3 == [g2 EXCEPT !.timerStart_ = t,
                         !.timerLength_ = LEVEL_BREAK_TIME \div 2,
                         !.numSafetyBricks_ = NUM_SAFETY_BRICKS - level + 1]
        g4 == PushAll(g3, StageBuilder_addSafetyBricks(g3.numSafetyBricks_))
        g5 == PushAll(g4, lvl.bricks)
        g6 == IF ~lvl.ok THEN GraphicsRunner_gameOver(g5, TRUE) ELSE g5
        g7 == [g6 EXCEPT !.numBricks_ =
                  Len(g6.objects) - (indexOfFirstSafetyBrick_ + g6.numSafetyBricks_)]
    IN  Push(g7, NewAttachedBall)

GraphicsRunner_handleSpecialBrick(g, brick, t) ==
    LET special == brick.special_
        g1 == IF special = "b" THEN Push(g, NewAttachedBall)
              ELSE IF special = "l"
              THEN [g EXCEPT !.objects[1] = Paddle_changeLength(g.objects[1], TRUE, t)]
              ELSE g
    IN  IF special = "s"
        THEN [g EXCEPT !.numSafetyBricks_ = g.numSafetyBricks_ - 1]
        ELSE [g1 EXCEPT !.numBricks_ = g1.numBricks_ - 1]

(* (GraphicsRunner_checkStatus_unmarked: the game is lost as soon as every  *)
(* ball left in the collection is marked for deletion.)                    *)
GraphicsRunner_checkStatus_unmarked(g, t, lvl) ==
    LET g1 == IF g.status_ = ""
              THEN IF g.numBricks_ = 0
                   THEN [g EXCEPT !.status_ = "c", !.timerStart_ = t,
                                  !.timerLength_ = LEVEL_BREAK_TIME]
                   ELSE IF \A k \in 1..Len(g.objects) :
                              g.objects[k].kind = "ball" => g.objects[k].delete_
                   THEN GraphicsRunner_gameOver(g, FALSE)
                   ELSE g
              ELSE g
    IN  IF g1.timerLength_ > 0 /\ t - g1.timerStart_ > g1.timerLength_
        THEN IF g1.status_ = "c"
             THEN GraphicsRunner_nextLevel([g1 EXCEPT !.timerLength_ = 0], TRUE, t, lvl)
             ELSE [g1 EXCEPT !.timerLength_ = 0]
        ELSE g1

GraphicsRunner_checkStatus(g, t, lvl) ==
    LET g1 == IF g.status_ = ""
              THEN IF g.numBricks_ = 0
                   THEN [g EXCEPT !.status_ = "c", !.timerStart_ = t,
                                  !.timerLength_ = LEVEL_BREAK_TIME]
                   ELSE IF Len(g.objects) = indexOfFirstSafetyBrick_
                                            + g.numSafetyBricks_ + g.numBricks_
                   THEN GraphicsRunner_gameOver(g, FALSE)
                   ELSE g
              ELSE g
    IN  IF g1.timerLength_ > 0 /\ t - g1.timerStart_ > g1.timerLength_
        THEN IF g1.status_ = "c"
             THEN GraphicsRunner_nextLevel([g1 EXCEPT !.timerLength_ = 0], TRUE, t, lvl)
             ELSE [g1 EXCEPT !.timerLength_ = 0]
        ELSE g1

(* r is the rand() % 10 of the detach.                                     *)
RECURSIVE ReleaseLoop(_, _, _)
ReleaseLoop(objs, i, r) ==
    IF i >= Len(objs) THEN objs
    ELSE IF Ball_isAttached(objs[i + 1])
    THEN [objs EXCEPT ![i + 1] = Ball_detach(objs[i + 1], r)]
    ELSE ReleaseLoop(objs, i + 1, r)

GraphicsRunner_releaseBall(g, r) ==
    IF g.status_ # "" THEN g
    ELSE [g EXCEPT
            !.objects = ReleaseLoop(g.objects,
                indexOfFirstSafetyBrick_ + g.numSafetyBricks_ + g.numBricks_, r)]

GraphicsRunner_togglePause(g) ==
    IF g.status_ = "" THEN [g EXCEPT !.status_ = "p"]
    ELSE IF g.status_ = "p" THEN [g EXCEPT !.status_ = ""]
    ELSE g

GraphicsRunner_start(g, t, lvl) ==
    IF g.status_ = "o"
    THEN GraphicsRunner_nextLevel([g EXCEPT !.level_ = 0], TRUE, t, lvl)
    ELSE g

(***************************************************************************)
(* The events handleEvent looks at: a key pressed or released.             *)
(***************************************************************************)
Keys == {"J", "L", "A", "D", "Space", "Escape", "Return"}
EventTypes == {"pressed", "released"}
Events == [type : EventTypes, key : Keys]

(***************************************************************************)
(* The state the constructor leaves: paddle, barrier, the first level      *)
(* (lvl is what getLevel(1) gave), one attached ball, the intro text up.   *)
(***************************************************************************)
StartTime == 0

Constructed(lvl) ==
    LET g0 == [objects |-> <<>>, capacity |-> 0, numSafetyBricks_ |-> 0,
               numBricks_ |-> 0, status_ |-> "", level_ |-> 0,
               timerLength_ |-> 0, timerStart_ |-> StartTime, nextId |-> 0]
        g1 == Push(g0, NewPaddle(WindowWidth \div 2, WindowHeight - 40 * SCALE,
                                 PADDLE_WIDTH, PADDLE_HEIGHT, StartTime))
        g2 == Push(g1, NewBarrier(WindowWidth, WindowHeight, BARRIER_WIDTH, BARRIER_BUFFER))
        g3 == GraphicsRunner_nextLevel(g2, FALSE, StartTime, lvl)
    IN  [g3 EXCEPT !.timerLength_ = -1]

(***************************************************************************)
(* States in the middle of a game: the constructed stage with balls in     *)
(* play.  A ball that is attached and has moved sits on the paddle.        *)
(***************************************************************************)
MaxFrames == 2
MaxEvents == 2
MaxTime == 3

PaddleX == WindowWidth \div 2
PaddleY == WindowHeight - 40 * SCALE

(* Places of a free ball: in the open, under the gap between the bricks    *)
(* (overlapping both without touching a corner, and touching a corner),    *)
(* under a brick, between the bricks, at the left wall, at the top wall,   *)
(* in the top left corner, above the paddle, beside the paddle's right     *)
(* circle, on a safety brick, about to leave the field and out of it.      *)
Places ==
    { <<300, 320>>, <<300, 298>>, <<300, 280>>, <<180, 280>>, <<300, 220>>,
      <<95, 320>>, <<300, 135>>, <<95, 135>>, <<300, 345>>, <<430, 400>>,
      <<190, 1090>>, <<300, 1250>>, <<300, 1265>> }

Velocities ==
    { <<0, 60>>, <<0, -60>>, <<30, -50>>, <<-50, 30>>,
      <<100, 30>>, <<-100, -30>>, <<0, -100>> }

SitOnPaddle(b) == [b EXCEPT !.x = PaddleX, !.y = PaddleY - BALL_RADIUS]

Flagged(b, f) == [b EXCEPT !.collisionState_ = f]

OneBall ==
    { << NewBall(p[1], p[2], v[1], v[2]) >> : p \in Places, v \in Velocities }

(* Two free balls, the first clear of everything else, the second in       *)
(* contact with it or nearly (and, in the last place, with a brick too).   *)
PairOffsets == { <<90, 0>>, <<70, 20>>, <<-30, -20>>, <<5, 0>>, <<110, 0>>, <<0, -70>> }
PairVelocities == { <<0, 60>>, <<30, -50>>, <<-20, 0>> }

TwoBalls ==
    { << Flagged(NewBall(300, 320, v[1], v[2]), f),
         Flagged(NewBall(300 + o[1], 320 + o[2], w[1], w[2]), h) >> :
        o \in PairOffsets, v \in PairVelocities, w \in PairVelocities,
        f \in BOOLEAN, h \in BOOLEAN }

(* A free ball in reach of the ball that sits on the paddle.               *)
WithAttached ==
    { << Flagged(SitOnPaddle(NewAttachedBall), f),
         Flagged(NewBall(300, 310, v[1], v[2]), h) >> :
        v \in PairVelocities, f \in BOOLEAN, h \in BOOLEAN }
    \cup
    { << Flagged(NewBall(300, 310, v[1], v[2]), h),
         Flagged(SitOnPaddle(NewAttachedBall), f) >> :
        v \in PairVelocities, f \in BOOLEAN, h \in BOOLEAN }

(* Two free balls in contact, one straight above the other, the upper one  *)
(* faster than the speed limit.                                            *)
FastPairs ==
    { << NewBall(300, 320, v[1], v[2]), NewBall(300, 250, 20, 100) >> :
        v \in PairVelocities }

InPlay == OneBall \cup TwoBalls \cup WithAttached \cup FastPairs

(* The constructed game without its attached ball, the intro over.         *)
Started(g) ==
    [g EXCEPT !.objects = SubSeq(g.objects, 1, Len(g.objects) - 1),
              !.nextId = g.nextId - 1,
              !.timerLength_ = 0]

MidGame(lvl, balls) == PushAll(Started(Constructed(lvl)), balls)

NoEvent == [type |-> "other", key |-> "none"]

StartGame(g) ==
    /\ objects = g.objects
    /\ capacity = g.capacity
    /\ numSafetyBricks_ = g.numSafetyBricks_
    /\ numBricks_ = g.numBricks_
    /\ status_ = g.status_
    /\ level_ = g.level_
    /\ timerLength_ = g.timerLength_
    /\ timerStart_ = g.timerStart_
    /\ nextId = g.nextId

(* lastEvent_ is not initialised by the constructor: it holds anything.    *)
InitConstructed ==
    /\ \E lvl \in StageBuilder_getLevel(1) : StartGame(Constructed(lvl))
    /\ lastEvent_ \in Events \cup {NoEvent}
    /\ frames = MaxFrames + 1
    /\ events = MaxEvents

InitMidGame ==
    /\ \E lvl \in StageBuilder_getLevel(1), balls \in InPlay : StartGame(MidGame(lvl, balls))
    /\ lastEvent_ = [type |-> "released", key |-> "Space"]
    /\ frames = MaxFrames
    /\ events = 0

(***************************************************************************)
(* The end of a level and what follows: the states in which a level has   *)
(* one regular brick left, marked by the ball that has just hit it.  The   *)
(* game of a level is the one nextLevel built; the levels before it were   *)
(* completed.                                                              *)
(***************************************************************************)
LevelFrames == 4
LevelEvents == 1

RECURSIVE LevelsBuilt(_)
LevelsBuilt(level) ==
    IF level = 1
    THEN { Constructed(lvl) : lvl \in StageBuilder_getLevel(1) }
    ELSE { GraphicsRunner_nextLevel([g EXCEPT !.status_ = "c", !.timerLength_ = 0],
                                    TRUE, StartTime, lvl) :
             g \in LevelsBuilt(level - 1), lvl \in StageBuilder_getLevel(level) }

(* The bricks before the last regular one are gone, the last is marked,    *)
(* the ball is in play.                                                    *)
LastBrick(g, ball) ==
    LET first == indexOfFirstSafetyBrick_ + g.numSafetyBricks_
        brick == g.objects[first + g.numBricks_]
    IN  PushAll([g EXCEPT !.objects = Append(SubSeq(g.objects, 1, first),
                                             [brick EXCEPT !.delete_ = TRUE]),
                          !.numBricks_ = 1,
                          !.timerLength_ = 0],
                << ball >>)

InitLevels ==
    /\ \E level \in 1..(Len(LevelFiles) + 1) :
         \E g \in LevelsBuilt(level) :
            StartGame(LastBrick(g, NewBall(300, 700, 20, 60)))
    /\ lastEvent_ = [type |-> "released", key |-> "Space"]
    /\ frames = LevelFrames
    /\ events = LevelEvents

Init ==
    /\ InitConstructed \/ InitMidGame \/ InitLevels
    /\ now = StartTime
    /\ pc = "idle"
    /\ it = 0
    /\ responses = {}
    /\ last = [op |-> "init"]

(***************************************************************************)
(* update(): one frame.  The loop over objects_ is taken one object at a   *)
(* time; the clock may have moved on by a second since the last frame.     *)
(***************************************************************************)
UpdateBegin ==
    /\ pc = "idle"
    /\ frames > 0
    /\ \E d \in {0, 1} : d <= MaxTime - now /\ now' = now + d
    /\ pc' = "loop"
    /\ it' = 0
    /\ responses' = {}
    /\ frames' = frames - 1
    /\ last' = [op |-> "begin"]
    /\ UNCHANGED <<objects, capacity, numSafetyBricks_, numBricks_, status_, level_,
                   timerLength_, timerStart_, lastEvent_, nextId, events>>

(* What a pass of update() had before it when it came to the marked        *)
(* object o: the counters, the length of the collection, the next id and   *)
(* the paddle.                                                             *)
Erased(op, o) ==
    [op |-> op, id |-> o.id, kind |-> o.kind,
     special |-> IF o.kind = "brick" THEN o.special_ ELSE "",
     ns0 |-> numSafetyBricks_, nb0 |-> numBricks_, len0 |-> Len(objects),
     id0 |-> nextId, paddle0 |-> objects[1], at |-> now]

(* The iterator points at an object marked for deletion: the brick's       *)
(* special effect, delete, erase.  If the effect's push_back moved the     *)
(* vector, the erase goes through an iterator that points nowhere: what    *)
(* follows is undefined, and the model stops there.                        *)
UpdateErase ==
    /\ pc = "loop"
    /\ it < Len(objects)
    /\ objects[it + 1].delete_
    /\ LET o == objects[it + 1]
           g == IF o.kind = "brick" THEN GraphicsRunner_handleSpecialBrick(Game, o, now)
                ELSE Game
       IN  IF g.capacity # capacity
           THEN /\ SetGame(g)
                /\ pc' = "undefined"
                /\ last' = Erased("undefined", o)
           ELSE /\ SetGame([g EXCEPT !.objects =
                        SubSeq(g.objects, 1, it) \o SubSeq(g.objects, it + 2, Len(g.objects))])
                /\ pc' = pc
                /\ last' = Erased("erase", o)
    /\ UNCHANGED <<lastEvent_, now, it, responses, frames, events>>

(* The velocity responses of one Ball::move() with the queries q: the      *)
(* ball's own, when the last query was answered, and the one written into  *)
(* the peer when the answer was 'y'.                                       *)
Ball_responses(o, objs, q) ==
    IF q = <<>> \/ q[Len(q)].c = "n" THEN {}
    ELSE IF q[Len(q)].c = "y"
    THEN {[ball |-> o.id, by |-> o.id],
          [ball |-> objs[q[Len(q)].target + 1].id, by |-> o.id]}
    ELSE {[ball |-> o.id, by |-> o.id]}

(* The ball a move() resolved against, as it was before: the target of    *)
(* the last query when it answered 'y'.                                    *)
Ball_peer(objs, q) ==
    IF q # <<>> /\ q[Len(q)].c = "y"
    THEN [x |-> objs[q[Len(q)].target + 1].x, y |-> objs[q[Len(q)].target + 1].y,
          vx |-> objs[q[Len(q)].target + 1].vx, vy |-> objs[q[Len(q)].target + 1].vy]
    ELSE [x |-> 0, y |-> 0, vx |-> 0, vy |-> 0]

(* The iterator points at an object that stays: draw it and, in normal     *)
(* status, move it.  m is what Ball::move() gives.                         *)
MoveBall(o, m) ==
    /\ objects' = m.objs
    /\ responses' = responses \cup Ball_responses(o, objects, m.q)
    /\ last' = [op |-> "ball", id |-> o.id, i |-> it, q |-> m.q,
                hit |-> m.hit, left |-> m.left,
                v0 |-> <<o.vx, o.vy>>, chainv |-> m.chainv,
                attached |-> o.attached, box |-> Ball_bounds(o),
                peer0 |-> Ball_peer(objects, m.q),
                state0 |-> o.collisionState_]

(* (MoveObject_always: move() whatever the status.)                        *)
MoveObject_always(o) ==
    IF o.kind \in {"barrier", "brick"}
    THEN /\ UNCHANGED <<objects, responses>>
         /\ last' = [op |-> "draw", id |-> o.id, moved |-> TRUE]
    ELSE IF o.kind = "paddle"
    THEN /\ objects' = [objects EXCEPT ![it + 1] =
                           Paddle_move(o, GraphicsRunner_getBarrier(Game), now)]
         /\ UNCHANGED responses
         /\ last' = [op |-> "paddle", id |-> o.id]
    ELSE MoveBall(o, Ball_move(objects, it, numSafetyBricks_, numBricks_))

MoveObject(o) ==
    IF status_ # "" \/ o.kind \in {"barrier", "brick"}
    THEN /\ UNCHANGED <<objects, responses>>
         /\ last' = [op |-> "draw", id |-> o.id, moved |-> status_ = ""]
    ELSE IF o.kind = "paddle"
    THEN /\ objects' = [objects EXCEPT ![it + 1] =
                           Paddle_move(o, GraphicsRunner_getBarrier(Game), now)]
         /\ UNCHANGED responses
         /\ last' = [op |-> "paddle", id |-> o.id]
    ELSE MoveBall(o, Ball_move(objects, it, numSafetyBricks_, numBricks_))

UpdateMove ==
    /\ pc = "loop"
    /\ it < Len(objects)
    /\ ~objects[it + 1].delete_
    /\ MoveObject(objects[it + 1])
    /\ it' = it + 1
    /\ UNCHANGED <<capacity, numSafetyBricks_, numBricks_, status_, level_, timerLength_,
                   timerStart_, lastEvent_, now, pc, nextId, frames, events>>

(* The loop is over: checkStatus().                                        *)
UpdateEnd ==
    /\ pc = "loop"
    /\ it >= Len(objects)
    /\ \E lvl \in StageBuilder_getLevel(level_ + 1) :
          SetGame(GraphicsRunner_checkStatus(Game, now, lvl))
    /\ pc' = "idle"
    /\ last' = [op |-> "end", status0 |-> status_, nb0 |-> numBricks_,
                balls0 |-> Cardinality({k \in 1..Len(objects) :
                                           objects[k].kind = "ball"}),
                marked0 |-> Cardinality({k \in 1..Len(objects) :
                                            objects[k].kind = "ball"
                                            /\ objects[k].delete_})]
    /\ UNCHANGED <<lastEvent_, now, it, responses, frames, events>>

(***************************************************************************)
(* handleEvent, between two frames.  r is the rand() % 10 a released ball  *)
(* draws, lvl what getLevel(1) gives on a restart.                         *)
(***************************************************************************)
GraphicsRunner_handleEvent(g, e, t, r, lvl) ==
    IF g.status_ = "" /\ e.key \in {"J", "L", "A", "D"}
    THEN [g EXCEPT !.objects[1] = Paddle_processKey(g.objects[1], e.type, e.key)]
    ELSE IF e.type # "released"
    THEN CASE e.key = "Space" -> GraphicsRunner_releaseBall(g, r)
           [] e.key = "Escape" -> GraphicsRunner_togglePause(g)
           [] e.key = "Return" -> GraphicsRunner_start(g, t, lvl)
           [] OTHER -> g
    ELSE g

HandleEvent ==
    /\ pc = "idle"
    /\ events > 0
    /\ \E e \in Events :
        /\ lastEvent_' = e
        /\ IF e.type # lastEvent_.type \/ e.key # lastEvent_.key
           THEN \E r \in (IF e = [type |-> "pressed", key |-> "Space"] THEN 0..9 ELSE {0}),
                   lvl \in (IF e = [type |-> "pressed", key |-> "Return"]
                            THEN StageBuilder_getLevel(1)
                            ELSE {[ok |-> FALSE, bricks |-> <<>>]}) :
                   SetGame(GraphicsRunner_handleEvent(Game, e, now, r, lvl))
           ELSE SetGame(Game)
        /\ last' = [op |-> "event", e |-> e,
                    taken |-> (e.type # lastEvent_.type \/ e.key # lastEvent_.key),
                    accel0 |-> objects[1].accel_, status0 |-> status_]
    /\ events' = events - 1
    /\ UNCHANGED <<now, pc, it, responses, frames>>

Next == UpdateBegin \/ UpdateErase \/ UpdateMove \/ UpdateEnd \/ HandleEvent

Spec == Init /\ [][Next]_vars

(***************************************************************************)
(* The keyboard on its own: the constructed game and KeyEvents events,     *)
(* with no frame between them.                                             *)
(***************************************************************************)
KeyEvents == 3

InitKeys ==
    /\ \E lvl \in StageBuilder_getLevel(1) : StartGame(Constructed(lvl))
    /\ lastEvent_ = NoEvent
    /\ frames = 0
    /\ events = KeyEvents
    /\ now = StartTime
    /\ pc = "idle"
    /\ it = 0
    /\ responses = {}
    /\ last = [op |-> "init"]

NextKeys == HandleEvent

SpecKeys == InitKeys /\ [][NextKeys]_vars

(***************************************************************************)
(* The collision queries on their own: one entity, one incoming box, one   *)
(* call of collision().  The boxes are those the program passes (a ball's  *)
(* bounds, the paddle's three boxes against the barrier) and, for a brick, *)
(* those of a ball of radius 5 as well.                                    *)
(***************************************************************************)
BallBoxAt(x, y) == Ball_bounds(NewBall(x, y, 0, 0))

SmallBoxAt(l, t) == Rect(l, t, 10, 10)

TheBarrier == NewBarrier(WindowWidth, WindowHeight, BARRIER_WIDTH, BARRIER_BUFFER)

ThePaddle == NewPaddle(PaddleX, PaddleY, PADDLE_WIDTH, PADDLE_HEIGHT, StartTime)

(* The paddle at rest, turned and moved since, and turned only.            *)
Paddles ==
    { ThePaddle,
      Paddle_advance([ThePaddle EXCEPT !.rot = 6]),
      Paddle_advance([ThePaddle EXCEPT !.rot = 354, !.vel_ = 40]),
      [ThePaddle EXCEPT !.rot = 6] }

PaddleBoxes(p) ==
    { Paddle_rectBounds(p), Paddle_circleBounds(p, p.lcx, p.lcy),
      Paddle_circleBounds(p, p.rcx, p.rcy) }

BarrierQueries ==
    { <<TheBarrier, BallBoxAt(x, y)>> :
        x \in {95, 99, 100, 101, 300, 499, 500, 501, 505},
        y \in {135, 139, 140, 141, 320} }
    \cup
    { <<TheBarrier, b>> :
        b \in UNION { PaddleBoxes([p EXCEPT !.x = x, !.lcx = p.lcx + x - p.x,
                                              !.rcx = p.rcx + x - p.x]) :
                        p \in Paddles, x \in {139, 140, 141, 300, 460} } }

ExampleBrick == NewBrick(90, 80, 40, 20, "")

LevelBrick == NewBrick(80, 200, 200, 40, "")

BrickQueries ==
    { <<ExampleBrick, SmallBoxAt(l, t)>> :
        l \in {76, 80, 81, 82, 84, 88, 95, 110, 124, 126, 128, 131},
        t \in {66, 70, 71, 72, 74, 78, 85, 92, 95, 96, 98, 101} }
    \cup
    { <<LevelBrick, BallBoxAt(x, y)>> :
        x \in {19, 21, 40, 50, 80, 180, 280, 300, 320, 339, 341},
        y \in {139, 141, 160, 180, 200, 220, 240, 280, 297, 299, 301} }

PaddleQueries ==
    { <<p, BallBoxAt(x, y)>> :
        p \in Paddles,
        x \in {150, 159, 161, 180, 220, 221, 300, 379, 380, 420, 439, 441},
        y \in {280, 320, 339, 341, 360, 400, 460, 499, 501} }

(* The paddle is also asked with the box of a circle wide enough to reach  *)
(* over both end caps: Paddle::collision takes any box.                    *)
WideBoxAt(x, y) == Rect(x - 160, y - 160, 320, 320)

WidePaddleQueries ==
    { <<p, WideBoxAt(x, y)>> :
        p \in { ThePaddle, [ThePaddle EXCEPT !.vel_ = 40] },
        x \in {210, 300, 390},
        y \in {320, 420} }

BallQueries ==
    { <<b, BallBoxAt(b.x + dx, b.y + dy)>> :
        b \in { NewBall(300, 320, 30, -50), SitOnPaddle(NewAttachedBall) },
        dx \in {-121, -120, -119, -100, -60, 0, 5, 60, 99, 100, 119, 120, 121},
        dy \in {-121, -120, -100, -60, 0, 5, 60, 99, 100, 120, 121} }

Queries ==
    BarrierQueries \cup BrickQueries \cup PaddleQueries \cup WidePaddleQueries
        \cup BallQueries

InitQuery ==
    /\ \E qu \in Queries :
          /\ objects = << [id |-> 0] @@ qu[1] >>
          /\ last = [op |-> "query", box |-> qu[2]]
    /\ capacity = 1
    /\ numSafetyBricks_ = 0
    /\ numBricks_ = 0
    /\ status_ = ""
    /\ level_ = 0
    /\ timerLength_ = 0
    /\ timerStart_ = StartTime
    /\ lastEvent_ = NoEvent
    /\ now = StartTime
    /\ pc = "query"
    /\ it = 0
    /\ nextId = 1
    /\ responses = {}
    /\ frames = 0
    /\ events = 0

(* The call: the entity is const, the box comes back in the answer.        *)
Asked(ans) ==
    /\ last' = [op |-> "answer", box |-> last.box, ans |-> ans]
    /\ pc' = "answered"
    /\ UNCHANGED <<objects, capacity, numSafetyBricks_, numBricks_, status_, level_,
                   timerLength_, timerStart_, lastEvent_, now, it, nextId, responses,
                   frames, events>>

AskBarrier ==
    /\ pc = "query"
    /\ objects[1].kind = "barrier"
    /\ Asked(Barrier_collision(objects[1], last.box))

AskBrick ==
    /\ pc = "query"
    /\ objects[1].kind = "brick"
    /\ Asked(Brick_collision(objects[1], last.box))

AskPaddle ==
    /\ pc = "query"
    /\ objects[1].kind = "paddle"
    /\ Asked(Paddle_collision(objects[1], last.box))

AskBall ==
    /\ pc = "query"
    /\ objects[1].kind = "ball"
    /\ Asked(Ball_collision(objects[1], last.box))

NextQuery == AskBarrier \/ AskBrick \/ AskPaddle \/ AskBall

SpecQuery == InitQuery /\ [][NextQuery]_vars

(***************************************************************************)
(* The paddle on its own, with the calls the game makes on it: processKey  *)
(* from handleEvent (while the game runs), changeLength(true) from         *)
(* handleSpecialBrick, move() from update() (while the game runs), and     *)
(* togglePause.  time(0) goes on by a second at a time; while the game     *)
(* runs every second has a frame.  frames is 1 when the current second has *)
(* had a frame.                                                            *)
(***************************************************************************)
InitPaddle ==
    /\ objects = << [id |-> 0] @@ ThePaddle >>
    /\ capacity = 1
    /\ numSafetyBricks_ = 0
    /\ numBricks_ = 0
    /\ status_ = ""
    /\ level_ = 1
    /\ timerLength_ = 0
    /\ timerStart_ = StartTime
    /\ lastEvent_ = NoEvent
    /\ now = StartTime
    /\ pc = "paddle"
    /\ it = 0
    /\ nextId = 1
    /\ responses = {}
    /\ last = [op |-> "new", p0 |-> objects[1], at |-> now]
    /\ frames = 0
    /\ events = 0

PaddleDid(op, p) ==
    /\ objects' = << p >>
    /\ last' = [op |-> op, p0 |-> objects[1], at |-> now]
    /\ UNCHANGED <<capacity, numSafetyBricks_, numBricks_, level_, timerLength_,
                   timerStart_, lastEvent_, pc, it, nextId, responses, events>>

(* handleEvent, a rotation key: only while the game runs.                  *)
PaddleKey ==
    /\ status_ = ""
    /\ \E type \in EventTypes, key \in {"A", "D"} :
           PaddleDid(key, Paddle_processKey(objects[1], type, key))
    /\ UNCHANGED <<status_, now, frames>>

(* handleSpecialBrick, an 'l' brick.                                       *)
PaddleLong ==
    /\ PaddleDid("long", Paddle_changeLength(objects[1], TRUE, now))
    /\ UNCHANGED <<status_, now, frames>>

(* update(): move() is called while the game runs.                         *)
PaddleFrame ==
    /\ IF status_ = ""
       THEN PaddleDid("move", Paddle_move(objects[1], TheBarrier, now))
       ELSE PaddleDid("still", objects[1])
    /\ frames' = 1
    /\ UNCHANGED <<status_, now>>

(* togglePause.                                                            *)
PaddlePause ==
    /\ status_' = IF status_ = "" THEN "p" ELSE ""
    /\ PaddleDid("pause", objects[1])
    /\ UNCHANGED <<now, frames>>

PaddleTick ==
    /\ now < StartTime + MaxTime
    /\ status_ # "" \/ frames = 1
    /\ now' = now + 1
    /\ frames' = 0
    /\ PaddleDid("tick", objects[1])
    /\ UNCHANGED status_

NextPaddle == PaddleKey \/ PaddleLong \/ PaddleFrame \/ PaddlePause \/ PaddleTick

SpecPaddle == InitPaddle /\ [][NextPaddle]_vars

(***************************************************************************)
(* The paddle between the walls: a running game's calls of processKey with *)
(* J and L, of changeLength(true) and of move().  events counts the key    *)
(* events and frames the frames.                                           *)
(***************************************************************************)
WallFrames == 4
WallEvents == 2

(* The paddle as constructed, and on its way to the left and to the right  *)
(* wall with J and L held.                                                 *)
PaddleStarts ==
    { ThePaddle,
      [NewPaddle(150, PaddleY, PADDLE_WIDTH, PADDLE_HEIGHT, StartTime)
           EXCEPT !.vel_ = -20, !.accel_ = -PADDLE_ACCELERATION],
      [NewPaddle(450, PaddleY, PADDLE_WIDTH, PADDLE_HEIGHT, StartTime)
           EXCEPT !.vel_ = 20, !.accel_ = PADDLE_ACCELERATION] }

InitWall ==
    /\ \E p \in PaddleStarts : objects = << [id |-> 0] @@ p >>
    /\ capacity = 1
    /\ numSafetyBricks_ = 0
    /\ numBricks_ = 0
    /\ status_ = ""
    /\ level_ = 1
    /\ timerLength_ = 0
    /\ timerStart_ = StartTime
    /\ lastEvent_ = NoEvent
    /\ now = StartTime
    /\ pc = "wall"
    /\ it = 0
    /\ nextId = 1
    /\ responses = {}
    /\ last = [op |-> "new", p0 |-> objects[1], at |-> now]
    /\ frames = 0
    /\ events = 0

WallDid(op, p) ==
    /\ objects' = << p >>
    /\ last' = [op |-> op, p0 |-> objects[1], at |-> now]
    /\ UNCHANGED <<capacity, numSafetyBricks_, numBricks_, status_, level_,
                   timerLength_, timerStart_, lastEvent_, pc, it, nextId, responses>>

(* handleEvent, a movement key.                                            *)
WallKey ==
    /\ events < WallEvents
    /\ \E type \in EventTypes, key \in {"J", "L"} :
           WallDid(key, Paddle_processKey(objects[1], type, key))
    /\ events' = events + 1
    /\ UNCHANGED <<now, frames>>

(* handleSpecialBrick, an 'l' brick.                                       *)
WallLong ==
    /\ WallDid("long", Paddle_changeLength(objects[1], TRUE, now))
    /\ UNCHANGED <<now, frames, events>>

(* update(): move().                                                       *)
WallFrame ==
    /\ frames < WallFrames
    /\ WallDid("move", Paddle_move(objects[1], TheBarrier, now))
    /\ frames' = frames + 1
    /\ UNCHANGED <<now, events>>

WallTick ==
    /\ now < StartTime + MaxTime
    /\ now' = now + 1
    /\ WallDid("tick", objects[1])
    /\ UNCHANGED <<frames, events>>

NextWall == WallKey \/ WallLong \/ WallFrame \/ WallTick

SpecWall == InitWall /\ [][NextWall]_vars

(***************************************************************************)
(* Ball::detach() on its own: one ball, free or attached, one call.  r is  *)
(* the rand() % 10 it draws.                                               *)
(***************************************************************************)
DetachBalls == { b[1] : b \in OneBall } \cup { SitOnPaddle(NewAttachedBall) }

InitDetach ==
    /\ \E b \in DetachBalls :
          /\ objects = << [id |-> 0] @@ b >>
          /\ last = [op |-> "new", b0 |-> b, r |-> 0]
    /\ capacity = 1
    /\ numSafetyBricks_ = 0
    /\ numBricks_ = 0
    /\ status_ = ""
    /\ level_ = 1
    /\ timerLength_ = 0
    /\ timerStart_ = StartTime
    /\ lastEvent_ = NoEvent
    /\ now = StartTime
    /\ pc = "detach"
    /\ it = 0
    /\ nextId = 1
    /\ responses = {}
    /\ frames = 0
    /\ events = 0

Detach ==
    /\ pc = "detach"
    /\ \E r \in 0..9 :
          /\ objects' = << Ball_detach(objects[1], r) >>
          /\ last' = [op |-> "detach", b0 |-> last.b0, r |-> r]
    /\ pc' = "detached"
    /\ UNCHANGED <<capacity, numSafetyBricks_, numBricks_, status_, level_, timerLength_,
                   timerStart_, lastEvent_, now, it, nextId, responses, frames, events>>

NextDetach == Detach

SpecDetach == InitDetach /\ [][NextDetach]_vars

(***************************************************************************)
(* Ball::handleSimpleCollision() on its own: one free ball, one answer of  *)
(* a collision query, and the handler called with it once and once again.  *)
(***************************************************************************)
BounceVelocities == { -80, -30, 0, 20, 60 }

BounceBalls ==
    { NewBall(300, 700, vx, vy) : vx \in BounceVelocities, vy \in BounceVelocities }

CollisionAnswers == { "v", "h", "c", "s", "n" }

InitBounce ==
    /\ \E b \in BounceBalls, c \in CollisionAnswers :
          /\ objects = << [id |-> 0] @@ b >>
          /\ last = [op |-> "new", b0 |-> b, c |-> c, handled |-> FALSE]
    /\ capacity = 1
    /\ numSafetyBricks_ = 0
    /\ numBricks_ = 0
    /\ status_ = ""
    /\ level_ = 1
    /\ timerLength_ = 0
    /\ timerStart_ = StartTime
    /\ lastEvent_ = NoEvent
    /\ now = StartTime
    /\ pc = "bounce"
    /\ it = 0
    /\ nextId = 1
    /\ responses = {}
    /\ frames = 0
    /\ events = 0

Bounce ==
    /\ pc \in {"bounce", "bounced"}
    /\ objects' = << Ball_handleSimpleCollision(objects[1], last.c).b >>
    /\ last' = [op |-> "bounce", b0 |-> last.b0, c |-> last.c,
                handled |-> Ball_handleSimpleCollision(objects[1], last.c).handled]
    /\ pc' = IF pc = "bounce" THEN "bounced" ELSE "bounced twice"
    /\ UNCHANGED <<capacity, numSafetyBricks_, numBricks_, status_, level_, timerLength_,
                   timerStart_, lastEvent_, now, it, nextId, responses, frames, events>>

NextBounce == Bounce

SpecBounce == InitBounce /\ [][NextBounce]_vars

(***************************************************************************)
(* One turn of handleBrickCollisions() on its own: a brick (index 0), a    *)
(* free ball (index 1) about one of its corners, and the ball's query and  *)
(* response.  The answer the brick gives to the ball's bounds is kept.     *)
(* The brick is one of level 1 or one that is higher than the ball's       *)
(* bounds are wide by half.                                                *)
(***************************************************************************)
TallBrick == NewBrick(80, 200, 200, 80, "")

CornerBalls ==
    { NewBall(x, y, v[1], v[2]) :
        x \in {30, 50, 80, 100, 260, 280, 300, 320},
        y \in {150, 170, 200, 220, 240, 270, 280, 290, 320},
        v \in { <<20, 60>>, <<-30, -50>>, <<0, 40>>, <<50, 0>> } }

InitCorner ==
    /\ \E b \in CornerBalls, brick \in {LevelBrick, TallBrick} :
          /\ objects = << [id |-> 0] @@ brick, [id |-> 1] @@ b >>
          /\ last = [op |-> "new", b0 |-> b,
                     ans |-> Brick_collision(brick, Ball_bounds(b))]
    /\ capacity = 2
    /\ numSafetyBricks_ = 0
    /\ numBricks_ = 1
    /\ status_ = ""
    /\ level_ = 1
    /\ timerLength_ = 0
    /\ timerStart_ = StartTime
    /\ lastEvent_ = NoEvent
    /\ now = StartTime
    /\ pc = "corner"
    /\ it = 1
    /\ nextId = 2
    /\ responses = {}
    /\ frames = 0
    /\ events = 0

HitBrick ==
    /\ pc = "corner"
    /\ objects' = Ball_brickStep([objs |-> objects, hit |-> FALSE, q |-> <<>>],
                                 1, Ball_bounds(objects[2]), 0).objs
    /\ last' = [last EXCEPT !.op = "brick"]
    /\ pc' = "cornered"
    /\ UNCHANGED <<capacity, numSafetyBricks_, numBricks_, status_, level_, timerLength_,
                   timerStart_, lastEvent_, now, it, nextId, responses, frames, events>>

NextCorner == HitBrick

SpecCorner == InitCorner /\ [][NextCorner]_vars

(***************************************************************************)
(* The claims.                                                             *)
(***************************************************************************)
BrickEnd == indexOfFirstSafetyBrick_ + numSafetyBricks_ + numBricks_

(* The step just taken was Ball::move() of a free ball inside the field.   *)
FreeBallMoved == last.op = "ball" /\ ~last.attached /\ ~last.left

(* The targets a free ball of index i asks when nothing answers: the       *)
(* barrier (index 1), the paddle (index 0), the bricks in index order, the *)
(* balls in index order whose parity flag is the one the ball had (the     *)
(* ball itself among them).                                                *)
ChainTargets(objs, i, end, state) ==
    <<1, 0>>
    \o [k \in 1..(end - indexOfFirstSafetyBrick_) |-> indexOfFirstSafetyBrick_ + k - 1]
    \o SelectSeq([k \in 1..(Len(objs) - end) |-> end + k - 1],
                 LAMBDA j : \/ j = i
                            \/ objs[j + 1].kind # "ball"
                            \/ objs[j + 1].collisionState_ = state)

(* q is a beginning of the targets in order, only its last query can have  *)
(* an answer other than 'n', and the velocity v0 became v by that answer   *)
(* alone.                                                                  *)
OneResponse(q, targets, hit, v0, v) ==
    /\ Len(q) >= 1
    /\ Len(q) <= Len(targets)
    /\ \A k \in 1..Len(q) : q[k].target = targets[k]
    /\ \A k \in 1..(Len(q) - 1) : q[k].c = "n"
    /\ hit <=> q[Len(q)].c # "n"
    /\ ~hit => Len(q) = Len(targets) /\ v = v0
    /\ q[Len(q)].target # 0 /\ q[Len(q)].c = "v" => v = <<v0[1], -v0[2]>>
    /\ q[Len(q)].target # 0 /\ q[Len(q)].c = "h" => v = <<-v0[1], v0[2]>>

(* C1: in one Ball::move() of a free ball inside the field the targets are *)
(* asked in the order barrier, paddle, bricks by index, balls by index;    *)
(* the first that answers a contact ends the chain, and its response is    *)
(* the only change the chain makes to the ball's velocity.                 *)
C1_FirstContactOnly ==
    FreeBallMoved =>
        OneResponse(last.q,
                    ChainTargets(objects, last.i, BrickEnd,
                                 ~objects[last.i + 1].collisionState_),
                    last.hit, last.v0, last.chainv)

(* A ball was answered by a brick after the barrier, the paddle and the    *)
(* bricks before it had answered 'n'.                                      *)
C1_Witness ==
    /\ FreeBallMoved
    /\ last.hit
    /\ Len(last.q) >= 4
    /\ objects[last.q[Len(last.q)].target + 1].kind = "brick"
    /\ last.q[Len(last.q)].c = "v"

(* C1 as stated, its last clause taken by the frame: no ball's velocity    *)
(* is written by more than one collision response in one frame.            *)
C1_AsStated ==
    /\ C1_FirstContactOnly
    /\ \A r1, r2 \in responses : r1.ball = r2.ball => r1 = r2

(* Two boxes share a positive area.                                        *)
Overlap(a, b) ==
    /\ a.left < b.left + b.width /\ b.left < a.left + a.width
    /\ a.top < b.top + b.height /\ b.top < a.top + a.height

Ids(objs) == [k \in 1..Len(objs) |-> objs[k].id]

(* C4: a move() (with the collision queries it makes) leaves the           *)
(* collection's members and order as they are, and marks nothing but a     *)
(* ball or a brick that update()'s iterator has reached or passed (so that *)
(* it goes in a later pass); an entity leaves the collection only by the   *)
(* erase of update(), and then it was marked, or by clear().               *)
C4_DeferredDeletion ==
    [][ /\ last'.op \in {"ball", "paddle", "draw"} =>
              /\ Ids(objects') = Ids(objects)
              /\ \A k \in 1..Len(objects) :
                    objects'[k].delete_ /\ ~objects[k].delete_ =>
                        k <= it + 1 /\ objects[k].kind \in {"ball", "brick"}
        /\ \A k \in 1..Len(objects) :
              (\A j \in 1..Len(objects') : objects'[j].id # objects[k].id) =>
                  \/ last'.op = "erase" /\ objects[k].delete_ /\ k = it + 1
                  \/ last'.op \in {"end", "event"} /\ k > indexOfFirstSafetyBrick_
      ]_vars

(* A ball's move() has marked a brick, which is still in the collection.   *)
C4_Witness ==
    /\ last.op = "ball"
    /\ last.hit
    /\ Len(last.q) >= 3
    /\ objects[last.q[Len(last.q)].target + 1].kind = "brick"
    /\ objects[last.q[Len(last.q)].target + 1].delete_

(* C5: in one frame no two balls resolve against each other both ways.     *)
C5_OnePerPair ==
    \A r1, r2 \in responses :
        ~(r1.by # r1.ball /\ r2.by = r1.ball /\ r2.ball = r1.by)

(* The ball that just moved had been resolved against by a peer in this    *)
(* frame, and was still in contact with it when it moved.                  *)
C5_Witness ==
    /\ FreeBallMoved
    /\ \E r \in responses, k \in 1..Len(objects) :
          /\ r.ball = last.id /\ r.by # last.id /\ objects[k].id = r.by
          /\ DistSq(objects[k].x, objects[k].y,
                    last.box.left + last.box.width \div 2,
                    last.box.top + last.box.height \div 2)
                < Sq(last.box.width \div 2 + BALL_RADIUS)
          /\ 16 * DistSq(objects[k].x, objects[k].y,
                         last.box.left + last.box.width \div 2,
                         last.box.top + last.box.height \div 2) > Sq(BALL_RADIUS)

(* C6: an attached ball's velocity is (0, 0), in every state.              *)
C6_AttachedAtRest ==
    \A k \in 1..Len(objects) :
        objects[k].kind = "ball" /\ objects[k].attached =>
            objects[k].vx = 0 /\ objects[k].vy = 0

(* A free ball has asked an attached ball within its reach.                *)
C6_Witness ==
    /\ FreeBallMoved
    /\ \E k \in 1..Len(last.q) :
          /\ objects[last.q[k].target + 1].kind = "ball"
          /\ objects[last.q[k].target + 1].attached
          /\ DistSq(objects[last.q[k].target + 1].x, objects[last.q[k].target + 1].y,
                    last.box.left + last.box.width \div 2,
                    last.box.top + last.box.height \div 2)
                < Sq(last.box.width \div 2 + BALL_RADIUS)

C8_AsStated ==
    /\ FreeBallMoved
    /\ ~last.hit
    /\ last.v0[1] # 0 /\ last.v0[2] # 0
    /\ (Abs(last.v0[1]) > BALL_MAX_SPEED \/ Abs(last.v0[2]) > BALL_MAX_SPEED)
    => /\ Abs(objects[last.i + 1].vx) < Abs(last.v0[1])
       /\ Abs(objects[last.i + 1].vy) < Abs(last.v0[2])

(* The bricks that answered a contact among the queries q.                 *)
Answered(objs, q) ==
    {q[k].target : k \in {n \in 1..Len(q) : objs[q[n].target + 1].kind = "brick"
                                               /\ q[n].c # "n"}}

(* C9: a Ball::move() marks the bricks that answered 'v', 'h' or 'c' to    *)
(* its query, changes the mark of no other brick, and at most one brick    *)
(* answers so.                                                             *)
C9_MarkedIffAnswered ==
    [][ last'.op = "ball" =>
          /\ \A j \in Answered(objects, last'.q) : objects'[j + 1].delete_
          /\ \A k \in 1..Len(objects) :
                objects[k].kind = "brick" /\ (k - 1) \notin Answered(objects, last'.q) =>
                    objects'[k].delete_ = objects[k].delete_
          /\ Cardinality(Answered(objects, last'.q)) <= 1
      ]_vars

(* A brick whose box the ball's box overlapped answered 'n' and is not     *)
(* marked.                                                                 *)
C9_Witness ==
    /\ FreeBallMoved
    /\ \E k \in 1..Len(last.q) :
          /\ objects[last.q[k].target + 1].kind = "brick"
          /\ last.q[k].c = "n"
          /\ Overlap(objects[last.q[k].target + 1].rectangle_, last.box)
          /\ ~objects[last.q[k].target + 1].delete_

(* The middle of a box.                                                    *)
MidX(b) == b.left + b.width \div 2
MidY(b) == b.top + b.height \div 2

(* The point (x, y) lies inside r: on its left or top edge, or within.     *)
Inside(r, x, y) ==
    /\ r.left <= x /\ x < r.left + r.width
    /\ r.top <= y /\ y < r.top + r.height

BrickCorners(r) ==
    { <<r.left, r.top>>, <<r.left + r.width, r.top>>,
      <<r.left + r.width, r.top + r.height>>, <<r.left, r.top + r.height>> }

(* The answer the order of precedence gives for the box b on the brick r.  *)
ByPriority(r, b) ==
    IF Inside(r, MidX(b), b.top) \/ Inside(r, MidX(b), b.top + b.height) THEN "v"
    ELSE IF Inside(r, b.left, MidY(b)) \/ Inside(r, b.left + b.width, MidY(b)) THEN "h"
    ELSE IF \E c \in BrickCorners(r) : 4 * DistSq(MidX(b), MidY(b), c[1], c[2]) < Sq(b.width)
    THEN "c"
    ELSE "n"

Answered1(kind) == last.op = "answer" /\ objects[1].kind = kind

(* C2: for a box that overlaps the brick's rectangle, Brick::collision     *)
(* answers Vertical if the box's top-middle or bottom-middle point is      *)
(* inside the brick, else Horizontal if its left-middle or right-middle    *)
(* point is, else Corner if a corner of the brick is nearer to the box's   *)
(* centre than half the box's width, else None.                            *)
C2_BrickPriority ==
    Answered1("brick") /\ Overlap(objects[1].rectangle_, last.box) =>
        last.ans.c = ByPriority(objects[1].rectangle_, last.box)

(* The example: a ball of radius 5 at (100, 100) on the brick              *)
(* (90, 80, 40, 20) is answered Vertical.                                  *)
C2_Witness ==
    /\ Answered1("brick")
    /\ objects[1].rectangle_ = Rect(90, 80, 40, 20)
    /\ last.box = Rect(95, 95, 10, 10)
    /\ last.ans.c = "v"

(* The boxes an entity is made of.                                         *)
OwnBoxes(o) ==
    CASE o.kind = "barrier" -> {o.left_, o.top_, o.right_}
      [] o.kind = "brick" -> {o.rectangle_}
      [] o.kind = "paddle" -> PaddleBoxes(o)
      [] o.kind = "ball" -> {Ball_bounds(o)}

ResolvedStraight ==
    /\ FreeBallMoved
    /\ last.hit
    /\ last.q[Len(last.q)].c = "y"
    /\ last.peer0.x = MidX(last.box)

(* The peer of the last move, as it is now.                                *)
PeerNow == objects[last.q[Len(last.q)].target + 1]

(* C11 as stated: after the resolving ball's move() it has the peer's      *)
(* former y-velocity, the peer has its former y-velocity, both             *)
(* x-velocities are unchanged, and the y-velocities sum as before.         *)
C11_AsStated ==
    ResolvedStraight =>
        /\ objects[last.i + 1].vy = last.peer0.vy
        /\ PeerNow.vy = last.v0[2]
        /\ objects[last.i + 1].vx = last.v0[1]
        /\ PeerNow.vx = last.peer0.vx
        /\ objects[last.i + 1].vy + PeerNow.vy = last.v0[2] + last.peer0.vy

(* C11: when the collision chain of the resolving ball's move() ends, it   *)
(* has the peer's former y-velocity and its own x-velocity, the peer has   *)
(* the resolving ball's former y-velocity and its own x-velocity; the      *)
(* resolving ball leaves move() with that velocity, unless a component of  *)
(* it is over BALL_MAX_SPEED: then with 0.99 of both components.           *)
C11_SwapThenLimit ==
    ResolvedStraight =>
        /\ last.chainv = <<last.v0[1], last.peer0.vy>>
        /\ PeerNow.vx = last.peer0.vx /\ PeerNow.vy = last.v0[2]
        /\ last.chainv[2] + PeerNow.vy = last.v0[2] + last.peer0.vy
        /\ IF last.chainv[1] > BALL_MAX_SPEED \/ last.chainv[2] > BALL_MAX_SPEED
           THEN /\ objects[last.i + 1].vx = TruncDiv(99 * last.chainv[1], 100)
                /\ objects[last.i + 1].vy = TruncDiv(99 * last.chainv[2], 100)
           ELSE /\ objects[last.i + 1].vx = last.chainv[1]
                /\ objects[last.i + 1].vy = last.chainv[2]

(* Two balls with different velocities, in both components, were swapped.  *)
C11_Witness ==
    /\ ResolvedStraight
    /\ last.v0[1] # last.peer0.vx
    /\ last.v0[2] # last.peer0.vy
    /\ objects[last.i + 1].vy = last.peer0.vy
    /\ PeerNow.vy = last.v0[2]

(* The square of the distance between a ball's centre and the centre of   *)
(* the box it was asked with.                                              *)
CentreDistSq(b, box) ==
    (b.x - MidX(box)) * (b.x - MidX(box)) + (b.y - MidY(box)) * (b.y - MidY(box))

(* radius / 4 < d < half the box's width + radius, on the squares.         *)
InContactRange(b, box) ==
    /\ 16 * CentreDistSq(b, box) > BALL_RADIUS * BALL_RADIUS
    /\ CentreDistSq(b, box) <
           (box.width \div 2 + BALL_RADIUS) * (box.width \div 2 + BALL_RADIUS)

(* C12: Ball::collision answers BallContact exactly when the ball is not   *)
(* attached and radius / 4 < d < half the box's width + radius; then the   *)
(* box carries the ball's centre in left/top and its velocity in           *)
(* width/height; otherwise the answer is None and the box is as passed.    *)
C12_BallContact ==
    Answered1("ball") =>
        /\ last.ans.c \in {"y", "n"}
        /\ last.ans.c = "y" <=>
               ~objects[1].attached /\ InContactRange(objects[1], last.box)
        /\ last.ans.c = "y" =>
               /\ last.ans.box.left = objects[1].x
               /\ last.ans.box.top = objects[1].y
               /\ last.ans.box.width = objects[1].vx
               /\ last.ans.box.height = objects[1].vy
        /\ last.ans.c = "n" => last.ans.box = last.box

(* A free ball was asked with a box centred less than radius / 4 from its  *)
(* own centre, but not on it.                                              *)
C12_Witness ==
    /\ Answered1("ball")
    /\ ~objects[1].attached
    /\ CentreDistSq(objects[1], last.box) > 0
    /\ 16 * CentreDistSq(objects[1], last.box) <= BALL_RADIUS * BALL_RADIUS
    /\ last.ans.c = "n"

(* The incoming centre is less than incoming radius plus half the paddle's *)
(* thickness from the line through the two end-cap centres (the distance   *)
(* of a point from a line, |(c - l) x (r - l)| / |r - l|, on the squares). *)
NearLongAxis(p, box) ==
    LET cross == (MidX(box) - p.lcx) * (p.rcy - p.lcy)
                     - (MidY(box) - p.lcy) * (p.rcx - p.lcx)
        len2 == (p.rcx - p.lcx) * (p.rcx - p.lcx) + (p.rcy - p.lcy) * (p.rcy - p.lcy)
        sum == box.width \div 2 + p.size_y \div 2
    IN  cross * cross < sum * sum * len2

(* The three conditions of the rectangle test.                             *)
OnRectangle(p, box) ==
    /\ Overlap(Paddle_rectBounds(p), box)
    /\ MidX(box) > p.lcx
    /\ MidX(box) < p.rcx
    /\ NearLongAxis(p, box)

OnCap(p, box, cx, cy) ==
    /\ Overlap(Rect(cx - p.size_y \div 2, cy - p.size_y \div 2, p.size_y, p.size_y), box)
    /\ (MidX(box) - cx) * (MidX(box) - cx) + (MidY(box) - cy) * (MidY(box) - cy)
           < (box.width \div 2 + p.size_y \div 2) * (box.width \div 2 + p.size_y \div 2)

(* The centres of the end caps the box is on.                              *)
CapsHit(p, box) ==
    { c \in { <<p.lcx, p.lcy>>, <<p.rcx, p.rcy>> } : OnCap(p, box, c[1], c[2]) }

C14_OneCapBox ==
    /\ Answered1("paddle")
    /\ last.ans.c # "v"
    /\ CapsHit(objects[1], last.box) # {}
    /\ ~ /\ Overlap(Paddle_circleBounds(objects[1], objects[1].lcx, objects[1].lcy), last.box)
         /\ Overlap(Paddle_circleBounds(objects[1], objects[1].rcx, objects[1].rcy), last.box)
    => /\ last.ans.c = "s"
       /\ <<last.ans.box.left, last.ans.box.top>> \in CapsHit(objects[1], last.box)
       /\ last.ans.box.width = objects[1].vel_
       /\ last.ans.box.height = 0

(* A rotation read as a signed angle from level.                           *)
Signed(rot) == IF rot > 180 THEN rot - 360 ELSE rot

C16_AsStated ==
    /\ pc = "paddle"
    /\ last.op = "move"
    /\ last.p0.size_x # PADDLE_WIDTH
    /\ last.at >= last.p0.timer_
    => objects[1].size_x = PADDLE_WIDTH

(* The positions of the collection that hold an entity of the kinds given, *)
(* safety bricks or not.                                                   *)
SafetySlots == { k \in 1..Len(objects) :
                    objects[k].kind = "brick" /\ objects[k].special_ = "s" }
RegularSlots == { k \in 1..Len(objects) :
                    objects[k].kind = "brick" /\ objects[k].special_ # "s" }
BallSlots == { k \in 1..Len(objects) : objects[k].kind = "ball" }

(* C17 as stated: between two frames the collection is paddle, barrier,    *)
(* safety bricks, regular bricks, balls; numSafetyBricks_ and numBricks_   *)
(* are the numbers of safety and of regular bricks in it, so the range     *)
(* from indexOfFirstSafetyBrick_ of their sum's length holds the bricks    *)
(* and the tail the balls.                                                 *)
C17_AsStated ==
    pc = "idle" =>
        /\ Len(objects) >= indexOfFirstSafetyBrick_
        /\ objects[1].kind = "paddle"
        /\ objects[2].kind = "barrier"
        /\ numSafetyBricks_ = Cardinality(SafetySlots)
        /\ numBricks_ = Cardinality(RegularSlots)
        /\ SafetySlots = (indexOfFirstSafetyBrick_ + 1)
                             ..(indexOfFirstSafetyBrick_ + numSafetyBricks_)
        /\ RegularSlots = (indexOfFirstSafetyBrick_ + numSafetyBricks_ + 1)..BrickEnd
        /\ BallSlots = (BrickEnd + 1)..Len(objects)

(* C18: in every state, through frames, level changes and restarts, the   *)
(* first two slots hold the paddle and the barrier the constructor put     *)
(* there, neither marked for deletion: whatever is marked is at index      *)
(* indexOfFirstSafetyBrick_ or above.                                      *)
C18_PaddleAndBarrierStay ==
    /\ Len(objects) >= indexOfFirstSafetyBrick_
    /\ objects[1].kind = "paddle" /\ objects[1].id = 0
    /\ objects[2].kind = "barrier" /\ objects[2].id = 1
    /\ \A k \in 1..Len(objects) : objects[k].delete_ => k > indexOfFirstSafetyBrick_

(* The game was over and was restarted with Return: clear() has run, a new *)
(* first level is up.                                                      *)
C18_Witness ==
    /\ last.op = "event"
    /\ last.e = [type |-> "pressed", key |-> "Return"]
    /\ last.taken
    /\ level_ = 1
    /\ status_ = ""
    /\ numBricks_ = NUM_BRICKS_PER_LINE * NUM_BRICK_ROWS
    /\ timerLength_ = LEVEL_BREAK_TIME \div 2
    /\ objects[1].id = 0
    /\ objects[2].id = 1

(* Where an entity is and how it moves: what move() works on.              *)
Motion(o) ==
    IF o.kind = "ball" THEN <<o.x, o.y, o.vx, o.vy, o.collisionState_>>
    ELSE IF o.kind = "paddle" THEN <<o.x, o.y, o.vel_, o.lcx, o.lcy, o.rcx, o.rcy>>
    ELSE <<>>

(* C19: a step of update() taken while the status is not normal is no      *)
(* move(), and every ball and the paddle that are in the collection before *)
(* and after it have the position, the velocity and the parity flag they   *)
(* had.                                                                    *)
C19_NoMoveUnlessNormal ==
    [][ status_ # "" /\ pc = "loop" =>
            /\ last'.op \notin {"ball", "paddle"}
            /\ \A k \in 1..Len(objects) : \A j \in 1..Len(objects') :
                   objects'[j].id = objects[k].id =>
                       Motion(objects'[j]) = Motion(objects[k])
      ]_vars

(* In a paused frame update() has gone past a free ball with a velocity.   *)
C19_Witness ==
    /\ status_ = "p"
    /\ pc = "loop"
    /\ last.op = "draw"
    /\ it >= 1
    /\ objects[it].kind = "ball"
    /\ objects[it].id = last.id
    /\ ~objects[it].attached
    /\ objects[it].vy # 0

(* C20 as stated: detach() on a ball that is not attached leaves its       *)
(* velocity, its position and its attachment as they were.                 *)
C20_AsStated ==
    pc = "detached" /\ ~last.b0.attached =>
        /\ objects[1].x = last.b0.x /\ objects[1].y = last.b0.y
        /\ objects[1].vx = last.b0.vx /\ objects[1].vy = last.b0.vy
        /\ ~objects[1].attached

(* C21 as stated: every call of Ball::move() toggles collisionState_.      *)
C21_AsStated ==
    last.op = "ball" => objects[last.i + 1].collisionState_ # last.state0

(* C21: a call of Ball::move() on a ball whose bounds' top is not beyond   *)
(* the field height toggles collisionState_ once, whether the ball is      *)
(* attached, collided or moved freely; a call on a ball that has left the  *)
(* field leaves the flag as it was.                                        *)
C21_FlipUnlessGone ==
    last.op = "ball" =>
        /\ ~last.left => objects[last.i + 1].collisionState_ # last.state0
        /\ last.left => objects[last.i + 1].collisionState_ = last.state0

(* An attached ball's move() has toggled its flag.                         *)
C21_Witness ==
    /\ last.op = "ball"
    /\ last.attached
    /\ ~last.left
    /\ objects[last.i + 1].collisionState_ # last.state0

(* C22: handleSimpleCollision with Horizontal negates the ball's x-velocity *)
(* and leaves the rest of the ball as it was, with Vertical negates the     *)
(* y-velocity and leaves the rest as it was, and with any other answer      *)
(* reports no simple collision and leaves the ball as it was; the same      *)
(* reflection a second time gives the first velocity back.                  *)
C22_SimpleReflection ==
    /\ pc = "bounced" =>
          /\ last.c = "h" =>
                /\ last.handled
                /\ objects[1] = [id |-> 0] @@ [last.b0 EXCEPT !.vx = -last.b0.vx]
          /\ last.c = "v" =>
                /\ last.handled
                /\ objects[1] = [id |-> 0] @@ [last.b0 EXCEPT !.vy = -last.b0.vy]
          /\ last.c \notin {"h", "v"} =>
                /\ ~last.handled
                /\ objects[1] = [id |-> 0] @@ last.b0
    /\ pc = "bounced twice" => objects[1] = [id |-> 0] @@ last.b0

(* A ball that went right and down has been reflected twice by a           *)
(* Horizontal answer and goes right and down again.                        *)
C22_Witness ==
    /\ pc = "bounced twice" /\ last.c = "h" /\ last.handled
    /\ last.b0.vx > 0 /\ last.b0.vy > 0
    /\ objects[1].vx = last.b0.vx /\ objects[1].vy = last.b0.vy

(* The paddle's rectangle or one of its end caps, as getGlobalBounds()     *)
(* gives them, overlaps a wall of the barrier.                             *)
TouchesBarrier(p, barrier) ==
    \E box \in { Paddle_rectBounds(p), Paddle_circleBounds(p, p.lcx, p.lcy),
                 Paddle_circleBounds(p, p.rcx, p.rcy) },
       wall \in { barrier.left_, barrier.top_, barrier.right_ } :
        intersects(wall, box)

AtBall == pc = "loop" /\ it < Len(objects) /\ objects[it + 1].kind = "ball"

(* C24: a move() of a ball whose bounds' top is beyond the field height    *)
(* marks the ball for deletion and does nothing else: no query is made,    *)
(* the ball's position, velocity and parity flag, every other entity and   *)
(* the host's counters and status are as they were.  When the iterator of  *)
(* an update() pass is at a marked ball, the pass takes that ball out of   *)
(* the collection, and a pass ends only when its iterator has gone through *)
(* the whole collection.                                                   *)
C24_LeaveOnlyMarks ==
    [][ /\ /\ AtBall
           /\ status_ = ""
           /\ ~objects[it + 1].delete_
           /\ Ball_bounds(objects[it + 1]).top > WindowHeight
           => /\ last'.op = "ball"
              /\ last'.q = <<>>
              /\ objects' = [objects EXCEPT ![it + 1].delete_ = TRUE]
              /\ UNCHANGED <<numSafetyBricks_, numBricks_, status_, level_>>
        /\ AtBall /\ objects[it + 1].delete_
           => /\ last'.op = "erase"
              /\ objects' = SubSeq(objects, 1, it) \o SubSeq(objects, it + 2, Len(objects))
              /\ UNCHANGED <<numSafetyBricks_, numBricks_, status_, level_>>
        /\ pc = "loop" /\ pc' = "idle" => it = Len(objects)
      ]_vars

(* A ball that had left the field has been taken out of the collection by  *)
(* a pass of update().                                                     *)
C24_Witness ==
    /\ last.op = "erase"
    /\ last.kind = "ball"
    /\ \A k \in 1..Len(objects) : objects[k].id # last.id

(* update() has come to a marked brick.                                    *)
BrickRemoved == last.op \in {"erase", "undefined"} /\ last.kind = "brick"

ElongatedWidth == (PADDLE_WIDTH * PADDLE_ELONGATION_NUM) \div PADDLE_ELONGATION_DEN

C26_BoxOnlyOnCorner ==
    Answered1("brick") =>
        /\ last.ans.c \in {"v", "h", "c", "n"}
        /\ last.ans.c # "c" => last.ans.box = last.box
        /\ last.ans.c = "c" =>
               /\ last.ans.box.width = last.box.width
               /\ last.ans.box.height = last.box.height
               /\ <<last.ans.box.left, last.ans.box.top>>
                      \in BrickCorners(objects[1].rectangle_)
               /\ 4 * DistSq(MidX(last.box), MidY(last.box),
                             last.ans.box.left, last.ans.box.top) < Sq(last.box.width)

(* A ball below and to the right of the brick touches its bottom right     *)
(* corner, which is left in the box.                                       *)
C26_Witness ==
    /\ Answered1("brick")
    /\ last.ans.c = "c"
    /\ last.ans.box.left = objects[1].rectangle_.left + objects[1].rectangle_.width
    /\ last.ans.box.top = objects[1].rectangle_.top + objects[1].rectangle_.height
    /\ last.ans.box # last.box

(* The ball has answered a brick's corner: d is the line from the contact  *)
(* point to the ball's centre as it was, v the velocity as it was and w    *)
(* the velocity now.                                                       *)
CornerResolved == pc = "cornered" /\ last.ans.c = "c"

ContactDx == last.b0.x - last.ans.box.left
ContactDy == last.b0.y - last.ans.box.top

(* The scalar product of (ax, ay) and (bx, by).                            *)
Dot(ax, ay, bx, by) == ax * bx + ay * by

(* |a| <= b / 2 *)
WithinHalf(a, b) == 2 * a <= b /\ -2 * a <= b

(* C27 as stated: the resolution of a corner contact negates the x         *)
(* velocity and keeps the y velocity when the ball's centre and the        *)
(* contact point have the same y, and negates the y velocity and keeps the *)
(* x velocity when they have the same x.                                   *)
C27_AsStated ==
    CornerResolved =>
        /\ ContactDy = 0 =>
               objects[2].vx = -last.b0.vx /\ objects[2].vy = last.b0.vy
        /\ ContactDx = 0 =>
               objects[2].vy = -last.b0.vy /\ objects[2].vx = last.b0.vx

(* C27: the resolution of a corner contact turns the part of the ball's    *)
(* velocity along the line from the contact point to the centre round and  *)
(* keeps the part across it (to the rounding of a velocity unit); when the *)
(* centre and the contact point have the same y the x velocity is negated  *)
(* and the y velocity kept; when they have the same x and not the same y   *)
(* the y velocity is negated and the x velocity kept.                      *)
C27_Reflected ==
    CornerResolved =>
        /\ WithinHalf(Dot(objects[2].vx + last.b0.vx, objects[2].vy + last.b0.vy,
                          ContactDx, ContactDy),
                      Abs(ContactDx) + Abs(ContactDy))
        /\ WithinHalf(Dot(objects[2].vx - last.b0.vx, objects[2].vy - last.b0.vy,
                          -ContactDy, ContactDx),
                      Abs(ContactDx) + Abs(ContactDy))
        /\ ContactDy = 0 =>
               objects[2].vx = -last.b0.vx /\ objects[2].vy = last.b0.vy
        /\ ContactDx = 0 /\ ContactDy # 0 =>
               objects[2].vy = -last.b0.vy /\ objects[2].vx = last.b0.vx

(* A ball straight below the brick's bottom right corner, going up and to  *)
(* the left, goes down and to the left after the contact.                  *)
C27_Witness ==
    /\ CornerResolved
    /\ ContactDx = 0 /\ ContactDy > 0
    /\ last.b0.vx < 0 /\ last.b0.vy < 0
    /\ objects[2].vx = last.b0.vx /\ objects[2].vy = -last.b0.vy

(* C28 as stated: when the release of L has come to handleEvent while      *)
(* accel_ was above 0, or the release of J while accel_ was below 0,       *)
(* accel_ is 0, whatever the status of the game.                           *)
C28_AsStated ==
    /\ last.op = "event"
    /\ last.e.type = "released"
    /\ \/ last.e.key = "L" /\ last.accel0 > 0
       \/ last.e.key = "J" /\ last.accel0 < 0
    => objects[1].accel_ = 0

(* C29: a ball's query of its own slot is answered 'n': no move() ends in  *)
(* a response of the ball to itself, and a move() that found no contact    *)
(* has asked the ball itself.                                              *)
C29_NoSelfResolution ==
    last.op = "ball" =>
        /\ \A k \in 1..Len(last.q) : last.q[k].target = last.i => last.q[k].c = "n"
        /\ ~last.attached /\ ~last.left /\ ~last.hit =>
               \E k \in 1..Len(last.q) : last.q[k].target = last.i

(* A ball has asked itself, was answered 'n', and went on to a peer that   *)
(* answered 'y'.                                                           *)
C29_Witness ==
    /\ last.op = "ball"
    /\ \E k \in 1..Len(last.q) : last.q[k].target = last.i /\ last.q[k].c = "n"
    /\ last.q[Len(last.q)].c = "y"
    /\ last.q[Len(last.q)].target > last.i

(* C30: at the end of a frame that began in normal status, the status is   *)
(* 'c' if numBricks_ was 0, else 'o' if the collection held no ball, else  *)
(* normal; a ball that is marked for deletion and still in the collection  *)
(* counts as a ball.                                                       *)
C30_EndOfFrame ==
    last.op = "end" /\ last.status0 = "" =>
        /\ status_ = IF last.nb0 = 0 THEN "c"
                     ELSE IF last.balls0 = 0 THEN "o"
                     ELSE ""
        /\ last.nb0 # 0 /\ last.marked0 > 0 => status_ = ""

(* The only ball has left the field in this frame, bricks remain, and the  *)
(* game is still in normal status.                                         *)
C30_Witness ==
    /\ last.op = "end" /\ last.status0 = ""
    /\ last.nb0 # 0
    /\ last.balls0 = 1 /\ last.marked0 = 1
    /\ status_ = ""

=============================================================================
